---- MODULE Spec2Model ----
(***************************************************************************)
(* State-machine model of the opkg_go package manager facade               *)
(* (internal/pkgmgr), the feed index acquisition layer (internal/repo)     *)
(* and the helpers they rely on (internal/version, path matching).         *)
(*                                                                         *)
(* Go strings are modelled as sequences of one-character strings, so that  *)
(* trimming, splitting, ordering and glob matching are computed the way    *)
(* the code computes them.                                                 *)
(***************************************************************************)
EXTENDS Integers, Sequences, FiniteSets, TLC

VARIABLES
  cfg,            \* Manager.cfg and Manager.cache: [Feeds, cache]
  status,         \* Manager.status: the status database, by name
  indexes,        \* Manager.indexes: the index set, a sequence of Index
  indexesLoaded,  \* Manager.indexesLoaded
  pc,             \* "idle", "updating" (inside repo.Update) or "returned"
  gor,            \* repo.Update: the state of the goroutine of each feed
  result,         \* repo.Update: the local slice result
  firstErr,       \* repo.Update: the local firstErr
  ret,            \* the operation that returned last, its arguments and result
  fsys,           \* the files the program reads and writes, by path
  frame           \* the local variables of a call that runs step by step

vars == << cfg, status, indexes, indexesLoaded, pc, gor, result, firstErr, ret, fsys, frame >>

(***************************************************************************)
(* Bytes and strings                                                       *)
(***************************************************************************)

\* The printable ASCII characters, in code order, starting at code 32. The two
\* quote characters (codes 39 and 96) appear in no modelled string; their
\* places are held by names that are not bytes.
Printable ==
  << " ", "!", "\"", "#", "$", "%", "&", "quote", "(", ")", "*", "+", ",", "-", ".", "/",
     "0", "1", "2", "3", "4", "5", "6", "7", "8", "9", ":", ";", "<", "=", ">", "?",
     "@", "A", "B", "C", "D", "E", "F", "G", "H", "I", "J", "K", "L", "M", "N", "O",
     "P", "Q", "R", "S", "T", "U", "V", "W", "X", "Y", "Z", "[", "\\", "]", "^", "_",
     "backquote", "a", "b", "c", "d", "e", "f", "g", "h", "i", "j", "k", "l", "m", "n", "o",
     "p", "q", "r", "s", "t", "u", "v", "w", "x", "y", "z", "{", "|", "}", "~" >>

Bytes == ({ Printable[i] : i \in 1..Len(Printable) } \ { "quote", "backquote" }) \cup { "\n", "\t" }

\* The byte value of a character.
CodeOf ==
  [ c \in Bytes |->
      IF c = "\n" THEN 10
      ELSE IF c = "\t" THEN 9
      ELSE 31 + (CHOOSE i \in 1..Len(Printable) : Printable[i] = c) ]

IsDigit(c) == CodeOf[c] >= 48 /\ CodeOf[c] <= 57
IsUpper(c) == CodeOf[c] >= 65 /\ CodeOf[c] <= 90
IsLowerLetter(c) == CodeOf[c] >= 97 /\ CodeOf[c] <= 122
IsLetter(c) == IsUpper(c) \/ IsLowerLetter(c)

\* unicode.ToLower on one ASCII character, as a code.
LowerCode(c) == IF IsUpper(c) THEN CodeOf[c] + 32 ELSE CodeOf[c]

Range(s) == { s[i] : i \in 1..Len(s) }

\* s[from:] of Go, with from counted from 0.
Drop(s, n) == SubSeq(s, n + 1, Len(s))
\* s[:to] of Go.
Take(s, n) == SubSeq(s, 1, n)

\* The string comparison a < b of Go: bytewise lexicographic.
RECURSIVE StrLess(_, _)
StrLess(a, b) ==
  IF b = << >> THEN FALSE
  ELSE IF a = << >> THEN TRUE
  ELSE IF CodeOf[a[1]] # CodeOf[b[1]] THEN CodeOf[a[1]] < CodeOf[b[1]]
  ELSE StrLess(Tail(a), Tail(b))

HasPrefix(s, p) == Len(s) >= Len(p) /\ Take(s, Len(p)) = p
HasSuffix(s, p) == Len(s) >= Len(p) /\ Drop(s, Len(s) - Len(p)) = p

\* strings.TrimSuffix and strings.TrimPrefix remove one occurrence.
TrimSuffix(s, p) == IF HasSuffix(s, p) THEN Take(s, Len(s) - Len(p)) ELSE s
TrimPrefix(s, p) == IF HasPrefix(s, p) THEN Drop(s, Len(p)) ELSE s

\* strings.IndexByte / strings.IndexAny: 0-based index of the first byte of s
\* that lies in cs, or -1.
IndexAny(s, cs) ==
  IF \E i \in 1..Len(s) : s[i] \in cs
  THEN (CHOOSE i \in 1..Len(s) : s[i] \in cs /\ \A j \in 1..(i - 1) : s[j] \notin cs) - 1
  ELSE -1

\* strings.LastIndexByte.
LastIndexByte(s, c) ==
  IF \E i \in 1..Len(s) : s[i] = c
  THEN (CHOOSE i \in 1..Len(s) : s[i] = c /\ \A j \in (i + 1)..Len(s) : s[j] # c) - 1
  ELSE -1

IsSpace(c) == c \in { " ", "\t", "\n", "\r", "\f" }

\* No trimming at all.
TrimSpaceNever(s) == s

\* strings.TrimSpace.
RECURSIVE TrimLeftSpace(_)
TrimLeftSpace(s) ==
  IF s # << >> /\ IsSpace(s[1]) THEN TrimLeftSpace(Tail(s)) ELSE s

RECURSIVE TrimRightSpace(_)
TrimRightSpace(s) ==
  IF s # << >> /\ IsSpace(s[Len(s)]) THEN TrimRightSpace(Take(s, Len(s) - 1)) ELSE s

TrimSpace(s) == TrimRightSpace(TrimLeftSpace(s))

\* strings.Split(s, sep) for a one-byte separator.
RECURSIVE Split(_, _)
Split(s, c) ==
  LET i == IndexAny(s, {c})
  IN  IF i < 0 THEN << s >> ELSE << Take(s, i) >> \o Split(Drop(s, i + 1), c)

\* strings.TrimLeft(s, "0") and the like: remove every leading byte in cs.
RECURSIVE TrimLeft(_, _)
TrimLeft(s, cs) ==
  IF s # << >> /\ s[1] \in cs THEN TrimLeft(Tail(s), cs) ELSE s

RECURSIVE TrimRight(_, _)
TrimRight(s, cs) ==
  IF s # << >> /\ s[Len(s)] \in cs THEN TrimRight(Take(s, Len(s) - 1), cs) ELSE s

\* Concatenation of a sequence of strings with a separator (strings.Join).
RECURSIVE JoinStr(_, _)
JoinStr(parts, sep) ==
  IF parts = << >> THEN << >>
  ELSE IF Len(parts) = 1 THEN parts[1]
  ELSE parts[1] \o sep \o JoinStr(Tail(parts), sep)

(***************************************************************************)
(* internal/version: Debian-style version comparison                       *)
(***************************************************************************)

\* The decimal value of a string of digits.
RECURSIVE DigitsValue(_)
DigitsValue(s) ==
  IF s = << >> THEN 0
  ELSE 10 * DigitsValue(Take(s, Len(s) - 1)) + (CodeOf[s[Len(s)]] - 48)

\* strconv.Atoi: an optional sign followed by at least one digit, and nothing
\* else. The result is [ok, val].
Atoi(s) ==
  LET body == IF s # << >> /\ s[1] \in { "+", "-" } THEN Tail(s) ELSE s
      neg  == s # << >> /\ s[1] = "-"
  IN  IF body # << >> /\ \A i \in 1..Len(body) : IsDigit(body[i])
      THEN [ok |-> TRUE, val |-> IF neg THEN 0 - DigitsValue(body) ELSE DigitsValue(body)]
      ELSE [ok |-> FALSE, val |-> 0]

splitEpoch(s) ==
  LET i == IndexAny(s, { ":" })
  IN  IF i < 0 THEN [epoch |-> 0, rest |-> s]
      ELSE LET n == Atoi(Take(s, i))
           IN  IF ~n.ok THEN [epoch |-> 0, rest |-> s]
               ELSE [epoch |-> n.val, rest |-> Drop(s, i + 1)]

splitRevision(s) ==
  LET idx == LastIndexByte(s, "-")
  IN  IF idx >= 0 THEN [upstream |-> Take(s, idx), revision |-> Drop(s, idx + 1)]
      ELSE [upstream |-> s, revision |-> << >>]

RECURSIVE leadingNonDigits(_)
leadingNonDigits(s) ==
  IF s # << >> /\ ~IsDigit(s[1]) THEN << s[1] >> \o leadingNonDigits(Tail(s)) ELSE << >>

RECURSIVE leadingDigits(_)
leadingDigits(s) ==
  IF s # << >> /\ IsDigit(s[1]) THEN << s[1] >> \o leadingDigits(Tail(s)) ELSE << >>

\* An order in which '~' is a character like any other that is no letter.
orderTildeOrdinary(r) ==
  IF r = << >> THEN 0
  ELSE IF IsDigit(r[1]) THEN CodeOf[r[1]]
  ELSE IF IsLetter(r[1]) THEN LowerCode(r[1]) + 256
  ELSE CodeOf[r[1]] + 256

\* order(r), with the rune 0 that nextRune returns past the end of the string
\* written as the empty sequence.
order(r) ==
  IF r = << >> THEN 0
  ELSE IF r[1] = "~" THEN -1
  ELSE IF IsDigit(r[1]) THEN CodeOf[r[1]]
  ELSE IF IsLetter(r[1]) THEN LowerCode(r[1]) + 256
  ELSE CodeOf[r[1]] + 256

\* nextRune(s, &i): the next byte as a one-element sequence, or << >> for 0.
nextRune(s) == IF s = << >> THEN << >> ELSE << s[1] >>

\* A comparison of non-digit runs that never answers "greater".
RECURSIVE compareNonDigitsNeverGreater(_, _)
compareNonDigitsNeverGreater(a, b) ==
  IF a = << >> /\ b = << >> THEN 0
  ELSE IF order(nextRune(a)) # order(nextRune(b)) THEN -1
  ELSE compareNonDigitsNeverGreater(IF a = << >> THEN a ELSE Tail(a),
                                    IF b = << >> THEN b ELSE Tail(b))

RECURSIVE compareNonDigits(_, _)
compareNonDigits(a, b) ==
  IF a = << >> /\ b = << >> THEN 0
  ELSE LET ra == nextRune(a)
           rb == nextRune(b)
           oa == order(ra)
           ob == order(rb)
       IN  IF oa # ob THEN (IF oa < ob THEN -1 ELSE 1)
           ELSE IF ra = << >> /\ rb = << >> THEN 0
           ELSE compareNonDigits(IF a = << >> THEN a ELSE Tail(a),
                                 IF b = << >> THEN b ELSE Tail(b))

\* A comparison of digit runs for which an empty run equals every run.
compareDigitsEmptyEqualsAny(a0, b0) ==
  LET a == TrimLeft(a0, { "0" })
      b == TrimLeft(b0, { "0" })
  IN  IF a0 = << >> \/ b0 = << >> THEN 0
      ELSE IF Len(a) # Len(b) THEN (IF Len(a) < Len(b) THEN -1 ELSE 1)
      ELSE IF a = b THEN 0
      ELSE IF StrLess(a, b) THEN -1
      ELSE 1

\* A comparison of digit runs as strings, whatever their lengths.
compareDigitsAsStrings(a0, b0) ==
  IF a0 = b0 THEN 0 ELSE IF StrLess(a0, b0) THEN -1 ELSE 1

compareDigits(a0, b0) ==
  LET a == TrimLeft(a0, { "0" })
      b == TrimLeft(b0, { "0" })
  IN  IF Len(a) # Len(b) THEN (IF Len(a) < Len(b) THEN -1 ELSE 1)
      ELSE IF a = b THEN 0
      ELSE IF StrLess(a, b) THEN -1
      ELSE 1

RECURSIVE comparePart(_, _)
comparePart(a, b) ==
  IF a = << >> /\ b = << >> THEN 0
  ELSE LET an == leadingNonDigits(a)
           bn == leadingNonDigits(b)
       IN  IF an # << >> \/ bn # << >>
           THEN LET c == compareNonDigits(an, bn)
                IN  IF c # 0 THEN c ELSE comparePart(Drop(a, Len(an)), Drop(b, Len(bn)))
           ELSE LET ad == leadingDigits(a)
                    bd == leadingDigits(b)
                    c  == compareDigits(ad, bd)
                IN  IF c # 0 THEN c ELSE comparePart(Drop(a, Len(ad)), Drop(b, Len(bd)))

Compare(a, b) ==
  LET ea == splitEpoch(a)
      eb == splitEpoch(b)
  IN  IF ea.epoch # eb.epoch THEN (IF ea.epoch < eb.epoch THEN -1 ELSE 1)
      ELSE LET ra == splitRevision(ea.rest)
               rb == splitRevision(eb.rest)
               c  == comparePart(ra.upstream, rb.upstream)
           IN  IF c # 0 THEN c ELSE comparePart(ra.revision, rb.revision)

\* CompareOp(a, op, b): [ok, err], ok being the boolean returned.
SupportedOperators == { << "<" >>, << "<", "=" >>, << "=" >>, << "=", "=" >>, << ">" >>, << ">", "=" >>, << "<", "<" >>, << ">", ">" >> }

\* An evaluation in which "<<" and ">>" also hold for equal versions.
compareOpResultInclusive(cmp, op) ==
  IF op \in { << "<" >> } THEN cmp < 0
  ELSE IF op \in { << "<", "=" >>, << "<", "<" >> } THEN cmp <= 0
  ELSE IF op \in { << "=" >>, << "=", "=" >> } THEN cmp = 0
  ELSE IF op \in { << ">" >> } THEN cmp > 0
  ELSE IF op \in { << ">", "=" >>, << ">", ">" >> } THEN cmp >= 0
  ELSE FALSE

compareOpResult(cmp, op) ==
  IF op \in { << "<" >>, << "<", "<" >> } THEN cmp < 0
  ELSE IF op = << "<", "=" >> THEN cmp <= 0
  ELSE IF op \in { << "=" >>, << "=", "=" >> } THEN cmp = 0
  ELSE IF op \in { << ">" >>, << ">", ">" >> } THEN cmp > 0
  ELSE IF op = << ">", "=" >> THEN cmp >= 0
  ELSE FALSE

CompareOp(a, op, b) ==
  IF op \notin SupportedOperators
  THEN [ok |-> FALSE, err |-> [kind |-> "unsupportedOperator", arg |-> op]]
  ELSE [ok |-> compareOpResult(Compare(a, b), op), err |-> [kind |-> "nil", arg |-> << >>]]

(***************************************************************************)
(* path.Match of the Go library, as matchesAny and relationMatches use it   *)
(***************************************************************************)

\* getEsc: one (possibly escaped) class character. [ok, code, rest].
BadEsc == [ok |-> FALSE, code |-> 0, rest |-> << >>]

getEscAt(c1) ==
  IF c1 = << >> \/ Tail(c1) = << >> THEN BadEsc
  ELSE [ok |-> TRUE, code |-> CodeOf[c1[1]], rest |-> Tail(c1)]

getEsc(chunk) ==
  IF chunk = << >> \/ chunk[1] \in { "-", "]" } THEN BadEsc
  ELSE getEscAt(IF chunk[1] = "\\" THEN Tail(chunk) ELSE chunk)

BadClass == [ok |-> FALSE, ranges |-> { }, rest |-> << >>]

\* The ranges of a character class, chunk being the pattern after "[" and an
\* optional "^": the loop ends at a "]" that follows at least one range; each
\* range is lo or lo-hi. [ok, ranges, rest].
RECURSIVE classRanges(_, _)
RECURSIVE classRangesLo(_, _)
RECURSIVE classRangesHi(_, _, _)
classRangesHi(lo, hi, ranges) ==
  IF ~hi.ok THEN BadClass
  ELSE classRanges(hi.rest, ranges \cup { << lo.code, hi.code >> })

classRangesLo(lo, ranges) ==
  IF ~lo.ok THEN BadClass
  ELSE IF lo.rest[1] = "-" THEN classRangesHi(lo, getEsc(Tail(lo.rest)), ranges)
  ELSE classRanges(lo.rest, ranges \cup { << lo.code, lo.code >> })

classRanges(chunk, ranges) ==
  IF chunk # << >> /\ chunk[1] = "]" /\ ranges # { }
  THEN [ok |-> TRUE, ranges |-> ranges, rest |-> Tail(chunk)]
  ELSE classRangesLo(getEsc(chunk), ranges)

classOf(negated, r) ==
  [ok |-> r.ok, negated |-> negated, ranges |-> r.ranges, rest |-> r.rest]

parseClassBody(negated, pattern) ==
  classOf(negated, classRanges(IF negated THEN Tail(pattern) ELSE pattern, { }))

\* A character class: pattern is the text after "[". [ok, negated, ranges, rest].
parseClass(pattern) == parseClassBody(pattern # << >> /\ pattern[1] = "^", pattern)

\* The pattern has no syntax error (path.ErrBadPattern is not returned).
RECURSIVE patternWellFormed(_)
RECURSIVE wellFormedAfterClass(_)
wellFormedAfterClass(c) == c.ok /\ patternWellFormed(c.rest)

patternWellFormed(pattern) ==
  IF pattern = << >> THEN TRUE
  ELSE IF pattern[1] = "\\"
  THEN Len(pattern) >= 2 /\ patternWellFormed(Drop(pattern, 2))
  ELSE IF pattern[1] = "["
  THEN wellFormedAfterClass(parseClass(Tail(pattern)))
  ELSE patternWellFormed(Tail(pattern))

\* The match relation of a well-formed pattern: "*" is any run of non-"/"
\* bytes, "?" one non-"/" byte, "[...]" one byte of the class, "\c" the byte c.
RECURSIVE globMatch(_, _)
RECURSIVE globMatchClass(_, _)
globMatchClass(c, name) ==
  /\ name # << >>
  /\ (\E r \in c.ranges : r[1] <= CodeOf[name[1]] /\ CodeOf[name[1]] <= r[2]) # c.negated
  /\ globMatch(c.rest, Tail(name))

globMatch(pattern, name) ==
  IF pattern = << >> THEN name = << >>
  ELSE IF pattern[1] = "*"
  THEN \E k \in 0..Len(name) :
          /\ \A j \in 1..k : name[j] # "/"
          /\ globMatch(Tail(pattern), Drop(name, k))
  ELSE IF pattern[1] = "?"
  THEN name # << >> /\ name[1] # "/" /\ globMatch(Tail(pattern), Tail(name))
  ELSE IF pattern[1] = "["
  THEN globMatchClass(parseClass(Tail(pattern)), name)
  ELSE IF pattern[1] = "\\"
  THEN name # << >> /\ name[1] = pattern[2] /\ globMatch(Drop(pattern, 2), Tail(name))
  ELSE name # << >> /\ name[1] = pattern[1] /\ globMatch(Tail(pattern), Tail(name))

\* path.Match(pattern, name): [ok, err].
pathMatch(pattern, name) ==
  IF ~patternWellFormed(pattern) THEN [ok |-> FALSE, err |-> TRUE]
  ELSE [ok |-> globMatch(pattern, name), err |-> FALSE]

\* The call matched: path.Match returned true and no error.
isMatch(m) == ~m.err /\ m.ok

\* matchesAny (patterns is a sequence of patterns).
matchesAny(name, patterns) ==
  IF Len(patterns) = 0 THEN TRUE
  ELSE \E i \in 1..Len(patterns) : isMatch(pathMatch(patterns[i], name))

(***************************************************************************)
(* path/filepath of the Go library on a Unix system                        *)
(***************************************************************************)

\* filepath.Base.
filepathBase(path) ==
  IF path = << >> THEN << "." >>
  ELSE LET p1 == TrimRight(path, { "/" })
           i  == LastIndexByte(p1, "/")
           p2 == IF i >= 0 THEN Drop(p1, i + 1) ELSE p1
       IN  IF p2 = << >> THEN << "/" >> ELSE p2

\* The components kept by filepath.Clean: empty and "." components vanish,
\* ".." removes the component before it, stays at the front of a relative
\* path and vanishes at the root.
RECURSIVE cleanComponents(_, _, _)
cleanComponents(parts, out, rooted) ==
  IF parts = << >> THEN out
  ELSE LET c == parts[1]
       IN  IF c = << >> \/ c = << "." >> THEN cleanComponents(Tail(parts), out, rooted)
           ELSE IF c = << ".", "." >>
           THEN IF out # << >> /\ out[Len(out)] # << ".", "." >>
                THEN cleanComponents(Tail(parts), Take(out, Len(out) - 1), rooted)
                ELSE IF rooted THEN cleanComponents(Tail(parts), out, rooted)
                ELSE cleanComponents(Tail(parts), Append(out, c), rooted)
           ELSE cleanComponents(Tail(parts), Append(out, c), rooted)

\* filepath.Clean.
filepathClean(path) ==
  IF path = << >> THEN << "." >>
  ELSE LET rooted == path[1] = "/"
           body   == JoinStr(cleanComponents(Split(path, "/"), << >>, rooted), << "/" >>)
       IN  IF rooted THEN << "/" >> \o body
           ELSE IF body = << >> THEN << "." >> ELSE body

\* filepath.Join of two elements: empty elements are ignored, the rest is
\* joined with "/" and cleaned; all elements empty gives "".
filepathJoin(a, b) ==
  IF a = << >> /\ b = << >> THEN << >>
  ELSE IF a = << >> THEN filepathClean(b)
  ELSE IF b = << >> THEN filepathClean(a)
  ELSE filepathClean(a \o << "/" >> \o b)


(***************************************************************************)
(* internal/format: paragraphs                                             *)
(***************************************************************************)

\* strings.EqualFold on ASCII strings.
EqualFold(a, b) ==
  Len(a) = Len(b) /\ \A i \in 1..Len(a) : LowerCode(a[i]) = LowerCode(b[i])

\* Paragraph.Value: the value of a key that equals key up to case, "" when
\* there is none. A paragraph is a function from its keys to their values;
\* the paragraphs of this model hold no two keys equal up to case, so the
\* map iteration finds at most one.
Value(p, key) ==
  LET ks == { k \in DOMAIN p : EqualFold(k, key) }
  IN  IF ks = { } THEN << >> ELSE p[CHOOSE k \in ks : TRUE]

kPackage == << "P", "a", "c", "k", "a", "g", "e" >>
kVersion == << "V", "e", "r", "s", "i", "o", "n" >>
kArchitecture == << "A", "r", "c", "h", "i", "t", "e", "c", "t", "u", "r", "e" >>
kDescription == << "D", "e", "s", "c", "r", "i", "p", "t", "i", "o", "n" >>
kFilename == << "F", "i", "l", "e", "n", "a", "m", "e" >>
kSize == << "S", "i", "z", "e" >>
kStatus == << "S", "t", "a", "t", "u", "s" >>
kDepends == << "D", "e", "p", "e", "n", "d", "s" >>

\* firstLine.
firstLine(text) ==
  LET idx == IndexAny(text, { "\n" })
  IN  IF idx >= 0 THEN Take(text, idx) ELSE text

(***************************************************************************)
(* The configurations, status databases and feed contents explored         *)
(***************************************************************************)

nA == << "A" >>
nB == << "B" >>
nC == << "C" >>
nD == << "D" >>
nE == << "E" >>

stInstalled == << "i", "n", "s", "t", "a", "l", "l", " ", "o", "k", " ", "i", "n", "s", "t", "a", "l", "l", "e", "d" >>
stConfigFiles == << "d", "e", "i", "n", "s", "t", "a", "l", "l", " ", "o", "k", " ", "c", "o", "n", "f", "i", "g", "-", "f", "i", "l", "e", "s" >>

\* config.Load: the feeds in declaration order, their URIs without, with
\* one or with two trailing slashes.
Feeds(uri) ==
  << [Name |-> << "x" >>, URI |-> uri],
     [Name |-> << "y" >>, URI |-> << "w" >> \o Tail(uri)] >>

\* Packages files a feed may serve, as the paragraphs ParseControl returns.
\* RemoteParagraphs[i] holds the alternatives for the i-th declared feed.
RemoteParagraphs ==
  << { << (kPackage :> nA) @@ (kVersion :> << "2" >>) @@ (kFilename :> << "p", "/", "A", ".", "i", "p", "k" >>)
            @@ (kDepends :> << "B" >>) @@ (kDescription :> << "l", "i", "b", "\n", "m", "o", "r", "e" >>),
          (kPackage :> nB) @@ (kVersion :> << "1" >>) @@ (kFilename :> << "/", "B", ".", "i", "p", "k" >>)
            @@ (kDepends :> << "C", " ", "(", ">", "=", " ", "1", ")" >>) >>,
       << (kPackage :> nC) @@ (kVersion :> << "1", "~", "b" >>) @@ (kFilename :> << "/", "/", "C", ".", "i", "p", "k" >>),
          (kVersion :> << "9" >>),
          (kPackage :> nE) @@ (kVersion :> << "1" >>) @@ (kFilename :> << "e", "/", ".", "." >>)
            @@ (kDepends :> << "A" >>) >> },
     { << (kPackage :> nA) @@ (kVersion :> << "1" >>) @@ (kFilename :> << "o", "l", "d", ".", "i", "p", "k" >>),
          (kPackage :> nA) @@ (kVersion :> << "3" >>) @@ (kFilename :> << "q", "/", "A", ".", "i", "p", "k" >>),
          (kPackage :> nD) @@ (kVersion :> << "1", ".", "1", "0" >>) @@ (kDepends :> << "A", " ", "|", " ", "E" >>) >>,
       << (kPackage :> nC) @@ (kVersion :> << "1" >>) @@ (kFilename :> << "d", "/", "C", ".", "i", "p", "k", "/" >>) >> } >>

\* pkgdb.Load: the status databases a manager is constructed with, as the
\* entries by name. The empty one is pkgdb.Empty (no status file).
statusEntry(name, version, state, depends) ==
  [Name |-> name, Version |-> version, Architecture |-> << >>, Status |-> state,
   Raw |-> IF depends = << >>
           THEN (kPackage :> name) @@ (kVersion :> version) @@ (kStatus :> state)
           ELSE (kPackage :> name) @@ (kVersion :> version) @@ (kStatus :> state)
                  @@ (kDepends :> depends)]

StatusDatabases ==
  { (nA :> statusEntry(nA, << "1" >>, stInstalled, << "B" >>))
      @@ (nB :> statusEntry(nB, << "1" >>, stInstalled, << "C", " ", "(", ">", "=", " ", "1", ")" >>))
      @@ (nC :> statusEntry(nC, << "1" >>, stInstalled, << >>))
      @@ (nD :> statusEntry(nD, << "1", ".", "9" >>, stInstalled, << "A", " ", "|", " ", "E" >>)),
    (nA :> statusEntry(nA, << "2" >>, stInstalled, << >>))
      @@ (nB :> statusEntry(nB, << "1" >>, stConfigFiles, << "A" >>)),
    << >> }

\* The feed URIs tried: without, with one and with two trailing slashes.
FeedURIs == { << "u" >>, << "u", "/" >>, << "u", "/", "/" >> }

\* config.CacheDir: option cache_dir, else tmp_dir, else /tmp; the value is
\* used as written in the configuration file.
CacheDirs == { << "/", "c" >>, << "/", "c", "/" >> }


NumFeeds == Len(RemoteParagraphs)

(***************************************************************************)
(* internal/repo: feed index acquisition                                   *)
(***************************************************************************)

NoErr == [kind |-> "nil", arg |-> << >>]
Err(kind, arg) == [kind |-> kind, arg |-> arg]

\* What the transport may answer to one GetBytes of feed i: a failure, or a
\* body. A body is described by what the code looks at: whether it begins
\* with 1F 8B, whether the gzip header and stream are readable, whether the
\* (uncompressed) text parses, and the paragraphs it then holds.
GoodBodies(i) ==
  { [ok |-> TRUE, magic |-> m, headerOk |-> TRUE, readOk |-> TRUE, parseOk |-> TRUE,
     paragraphs |-> ps] : m \in BOOLEAN, ps \in RemoteParagraphs[i] }

BadBodies ==
  { [ok |-> TRUE, magic |-> TRUE, headerOk |-> FALSE, readOk |-> FALSE, parseOk |-> FALSE,
     paragraphs |-> << >>],
    [ok |-> TRUE, magic |-> TRUE, headerOk |-> TRUE, readOk |-> FALSE, parseOk |-> FALSE,
     paragraphs |-> << >>],
    [ok |-> TRUE, magic |-> FALSE, headerOk |-> FALSE, readOk |-> FALSE, parseOk |-> FALSE,
     paragraphs |-> << >>] }

NetError ==
  [ok |-> FALSE, magic |-> FALSE, headerOk |-> FALSE, readOk |-> FALSE, parseOk |-> FALSE,
   paragraphs |-> << >>]

Responses(i) == GoodBodies(i) \cup BadBodies \cup { NetError }

\* The environment of one fetchFeed call: the answers to the two URLs and
\* whether the cache file can be written.
FetchEnvs(i) ==
  { [gz |-> g, plain |-> p, writeOk |-> w] :
      g \in Responses(i),
      p \in Responses(i),
      w \in BOOLEAN }

\* The environments that differ in something fetchFeed observes: the plain
\* URL is requested only after the .gz URL failed.
ObservedFetchEnvs(i) ==
  { e \in FetchEnvs(i) : e.gz.ok => e.plain = NetError }

\* The Package built from one paragraph of a feed.
packageOf(paragraph, feed) ==
  [Name |-> Value(paragraph, kPackage),
   Version |-> Value(paragraph, kVersion),
   Architecture |-> Value(paragraph, kArchitecture),
   Description |-> Value(paragraph, kDescription),
   Filename |-> Value(paragraph, kFilename),
   Size |-> Value(paragraph, kSize),
   Feed |-> feed,
   Raw |-> paragraph]

\* index.Packages after the loop over the paragraphs: a paragraph without a
\* Package value is skipped and a later paragraph replaces an earlier one of
\* the same name.
RECURSIVE indexPackages(_, _, _)
indexPackages(paragraphs, feed, acc) ==
  IF paragraphs = << >> THEN acc
  ELSE LET name == Value(paragraphs[1], kPackage)
       IN  IF name = << >> THEN indexPackages(Tail(paragraphs), feed, acc)
           ELSE indexPackages(Tail(paragraphs), feed,
                  [n \in DOMAIN acc \cup { name } |->
                      IF n = name THEN packageOf(paragraphs[1], feed) ELSE acc[n]])

NoIndex == [Feed |-> [Name |-> << >>, URI |-> << >>], Packages |-> << >>]

\* fetchFeed. The result holds the error (NoErr on success), the index, the
\* URLs requested in order, and the cache file written (path "" when none).
fetchFeed(feed, cacheDir, env) ==
  LET base  == TrimSuffix(feed.URI, << "/" >>)
      urlGz == base \o << "/", "P", "a", "c", "k", "a", "g", "e", "s", ".", "g", "z" >>
      urlPl == base \o << "/", "P", "a", "c", "k", "a", "g", "e", "s" >>
      reqs  == IF env.gz.ok THEN << urlGz >> ELSE << urlGz, urlPl >>
      data  == IF env.gz.ok THEN env.gz ELSE env.plain
      fail(kind, rs) ==
        [err |-> Err(kind, feed.Name), index |-> NoIndex, requests |-> rs,
         cachePath |-> << >>, cacheData |-> << >>]
      path  == filepathJoin(cacheDir, feed.Name \o << ".", "P", "a", "c", "k", "a", "g", "e", "s" >>)
  IN  IF feed.URI = << >> THEN fail("emptyURI", << >>)
      ELSE IF ~data.ok THEN fail("fetch", reqs)
      ELSE IF data.magic /\ ~data.headerOk THEN fail("decompress", reqs)
      ELSE IF data.magic /\ ~data.readOk THEN fail("read", reqs)
      ELSE IF ~data.parseOk THEN fail("parse", reqs)
      ELSE IF cacheDir # << >> /\ ~env.writeOk THEN fail("cache", reqs)
      ELSE [err |-> NoErr,
            index |-> [Feed |-> feed,
                       Packages |-> indexPackages(data.paragraphs, feed, << >>)],
            requests |-> reqs,
            cachePath |-> IF cacheDir # << >> THEN path ELSE << >>,
            cacheData |-> data.paragraphs]

\* The loop of IndexSet.Find from index i on.
RECURSIVE findFrom(_, _, _)
findFrom(idxs, i, name) ==
  IF i > Len(idxs) THEN [ok |-> FALSE, pkg |-> packageOf(<< >>, NoIndex.Feed)]
  ELSE IF name \in DOMAIN idxs[i].Packages THEN [ok |-> TRUE, pkg |-> idxs[i].Packages[name]]
  ELSE findFrom(idxs, i + 1, name)

\* IndexSet.Find: the package of the first index that holds the name.
Find(idxs, name) == findFrom(idxs, 1, name)

\* The orders in which a map iteration may visit the keys of a map.
RECURSIVE Orders(_)
Orders(S) ==
  IF S = { } THEN { << >> }
  ELSE UNION { { << x >> \o o : o \in Orders(S \ { x }) } : x \in S }

\* IndexSet.All: the packages index by index; the iteration order of the Go
\* map inside one index is unspecified, so this is the set of the slices
\* All may return.
RECURSIVE All(_)
All(idxs) ==
  IF idxs = << >> THEN { << >> }
  ELSE { [i \in 1..Len(o) |-> idxs[1].Packages[o[i]]] \o rest :
           o \in Orders(DOMAIN idxs[1].Packages), rest \in All(Tail(idxs)) }


(***************************************************************************)
(* internal/pkgdb: the status database (a map from name to Entry)          *)
(***************************************************************************)

\* strings.Contains.
Contains(s, sub) ==
  \E i \in 0..(Len(s) - Len(sub)) : SubSeq(s, i + 1, i + Len(sub)) = sub

\* The strings of a set in ascending order (sort.Strings, and sort.Slice by
\* name on entries whose names are distinct).
RECURSIVE SortStrings(_)
SortStrings(S) ==
  IF S = { } THEN << >>
  ELSE LET m == CHOOSE x \in S : \A y \in S : ~StrLess(y, x)
       IN  << m >> \o SortStrings(S \ { m })

\* Status.Installed.
Installed(st, name) ==
  name \in DOMAIN st /\ Contains(st[name].Status, << "i", "n", "s", "t", "a", "l", "l", "e", "d" >>)

entriesInOrder(st, names) == [i \in 1..Len(names) |-> st[names[i]]]

\* Status.Entries: a copy of all entries, sorted by name.
Entries(st) == entriesInOrder(st, SortStrings(DOMAIN st))

NoEntry ==
  [Name |-> << >>, Version |-> << >>, Architecture |-> << >>, Status |-> << >>, Raw |-> << >>]

\* Status.Lookup.
Lookup(st, name) ==
  IF name \in DOMAIN st THEN [entry |-> st[name], err |-> NoErr]
  ELSE [entry |-> NoEntry, err |-> Err("notFound", << >>)]

(***************************************************************************)
(* internal/pkgmgr: queries                                                *)
(***************************************************************************)

\* The permutations of a slice that a sort.Slice by Name may produce: the
\* sort is not stable, so elements of equal name come in any order.
RECURSIVE sortedIndexOrders(_, _)
sortedIndexOrders(s, I) ==
  IF I = { } THEN { << >> }
  ELSE UNION { { << i >> \o o : o \in sortedIndexOrders(s, I \ { i }) } :
                 i \in { i \in I : \A j \in I : ~StrLess(s[j].Name, s[i].Name) } }

SortedByName(s) ==
  { [i \in 1..Len(o) |-> s[o[i]]] : o \in sortedIndexOrders(s, 1..Len(s)) }

\* ensureIndexesLoaded that never fails.
ensureIndexesLoadedNever(loaded) == NoErr

ensureIndexesLoaded(loaded) ==
  IF ~loaded THEN Err("indexesNotLoaded", << >>) ELSE NoErr

\* strings.ReplaceAll(s, "\n", with).
RECURSIVE ReplaceNewlines(_, _)
ReplaceNewlines(s, with) ==
  IF s = << >> THEN << >>
  ELSE (IF s[1] = "\n" THEN with ELSE << s[1] >>) \o ReplaceNewlines(Tail(s), with)

\* The result of a call: the error, the value, the DownloadToFile calls made
\* (url, path and whether the file was committed), whether the call read the
\* index set, and the names Install was called with.
Result(err, val, calls, readIndexes) ==
  [err |-> err, val |-> val, calls |-> calls, readIndexes |-> readIndexes,
   installs |-> << >>]

\* The description a line shows: its first line or the whole text with
\* newlines replaced by spaces, "(no description)" when that is empty.
descriptionOrNone(desc) == IF desc = << >> THEN << "(", "n", "o", " ", "d", "e", "s", "c", "r", "i", "p", "t", "i", "o", "n", ")" >> ELSE desc

displayDescription(desc, short) ==
  descriptionOrNone(IF short THEN firstLine(desc) ELSE ReplaceNewlines(desc, << " " >>))

\* The line with the size appended when it is asked for and present.
lineWithSize(line, size, includeSize) ==
  IF includeSize /\ size # << >> THEN line \o << " ", "(" >> \o size \o << ")" >> ELSE line

\* One line of ListPackages for an index package.
packageLine(pkg, st, opts) ==
  lineWithSize(pkg.Name \o << " ", "-", " " >>
                 \o displayDescription(pkg.Description, opts.ShortDescription)
                 \o (IF Installed(st, pkg.Name) THEN << " ", "[", "i", "n", "s", "t", "a", "l", "l", "e", "d", "]" >> ELSE << >>),
               pkg.Size, opts.IncludeSize)

\* One line of listInstalled for a status entry.
entryLine(entry, opts) ==
  lineWithSize(entry.Name \o << " ", "-", " " >>
                 \o displayDescription(Value(entry.Raw, kDescription), opts.ShortDescription),
               Value(entry.Raw, << "I", "n", "s", "t", "a", "l", "l", "e", "d", "-", "S", "i", "z", "e" >>), opts.IncludeSize)

entryLines(es, opts) == [i \in 1..Len(es) |-> entryLine(es[i], opts)]

packageLines(ps, st, opts) == [i \in 1..Len(ps) |-> packageLine(ps[i], st, opts)]

listInstalled(st, opts) ==
  LET match(e) == matchesAny(e.Name, opts.Patterns)
  IN  Result(NoErr, entryLines(SelectSeq(Entries(st), match), opts), << >>, FALSE)

\* ListPackages, sorted being the packages of IndexSet.All as sort.Slice
\* leaves them.
ListPackages(sorted, loaded, st, opts) ==
  IF opts.InstalledOnly THEN listInstalled(st, opts)
  ELSE IF ensureIndexesLoaded(loaded) # NoErr
  THEN Result(ensureIndexesLoaded(loaded), << >>, << >>, FALSE)
  ELSE LET match(p) == matchesAny(p.Name, opts.Patterns)
       IN  Result(NoErr, packageLines(SelectSeq(sorted, match), st, opts), << >>, TRUE)

\* A loop body that also takes an entry whose version equals the found one.
upgradeCandidateOrEqual(entry, f, patterns) ==
  IF ~matchesAny(entry.Name, patterns) THEN << >>
  ELSE IF ~f.ok THEN << >>
  ELSE IF Compare(entry.Version, f.pkg.Version) > 0 THEN << >>
  ELSE << [Name |-> entry.Name, Installed |-> entry.Version,
           Available |-> f.pkg.Version,
           Description |-> firstLine(f.pkg.Description)] >>

\* The body of the loop of ListUpgradable for one status entry, f being what
\* IndexSet.Find returns for its name: the candidate appended, if any.
upgradeCandidate(entry, f, patterns) ==
  IF ~matchesAny(entry.Name, patterns) THEN << >>
  ELSE IF ~f.ok THEN << >>
  ELSE IF Compare(entry.Version, f.pkg.Version) >= 0 THEN << >>
  ELSE << [Name |-> entry.Name, Installed |-> entry.Version,
           Available |-> f.pkg.Version,
           Description |-> firstLine(f.pkg.Description)] >>

\* The upgrade candidates of ListUpgradable before the final sort, in the
\* order of Status.Entries.
RECURSIVE upgradeCandidates(_, _, _)
upgradeCandidates(entries, idxs, patterns) ==
  IF entries = << >> THEN << >>
  ELSE upgradeCandidate(entries[1], Find(idxs, entries[1].Name), patterns)
         \o upgradeCandidates(Tail(entries), idxs, patterns)

\* ListUpgradable. The candidates have distinct names, so the final sort has
\* one outcome.
ListUpgradable(idxs, loaded, st, patterns) ==
  IF ensureIndexesLoaded(loaded) # NoErr
  THEN Result(ensureIndexesLoaded(loaded), << >>, << >>, FALSE)
  ELSE LET cs == upgradeCandidates(Entries(st), idxs, patterns)
       IN  Result(NoErr, CHOOSE s \in SortedByName(cs) : TRUE, << >>, TRUE)


(***************************************************************************)
(* internal/pkgmgr: Install, Download, Upgrade, Clean                      *)
(***************************************************************************)

\* What the transport lets Client.DownloadToFile return: nil or the error of
\* GetBytes.
DownloadOutcomes == { NoErr, Err("network", << >>) }

\* Client.DownloadToFile(url, path) under the transport outcome dl: the
\* download is written to path + ".tmp" and renamed to path; the rename onto
\* a directory (the root or the cache directory itself) fails.
DownloadToFile(path, cache, dl) ==
  IF dl # NoErr THEN dl
  ELSE IF path \in { << "/" >>, filepathClean(cache) } THEN Err("io", << >>)
  ELSE NoErr

\* The URL with every trailing slash of the URI and every leading slash of
\* the filename removed.
installURLAllSlashes(pkg) ==
  TrimRight(pkg.Feed.URI, { "/" }) \o << "/" >> \o TrimLeft(pkg.Filename, { "/" })

\* The URL and the destination Install computes for a package.
installURL(pkg) ==
  TrimSuffix(pkg.Feed.URI, << "/" >>) \o << "/" >> \o TrimPrefix(pkg.Filename, << "/" >>)

installDest(pkg, cache) == filepathJoin(cache, filepathBase(pkg.Filename))

\* The return of Install after DownloadToFile(url, dest) has returned err.
installReturn(url, dest, err) ==
  Result(err, IF err = NoErr THEN dest ELSE << >>,
         << [url |-> url, path |-> dest, ok |-> err = NoErr] >>, TRUE)

installDownload(url, dest, cache, dl) ==
  installReturn(url, dest, DownloadToFile(dest, cache, dl))

\* Install once IndexSet.Find has returned f.
installFound(f, name, cache, dl) ==
  IF ~f.ok THEN Result(Err("notAvailable", name), << >>, << >>, TRUE)
  ELSE IF f.pkg.Filename = << >> THEN Result(Err("noFilename", name), << >>, << >>, TRUE)
  ELSE installDownload(installURL(f.pkg), installDest(f.pkg, cache), cache, dl)

installCalled(r, name) == [r EXCEPT !.installs = << name >>]

\* Manager.Install; dl is what DownloadToFile returns when it is called.
Install(idxs, loaded, cache, name, dl) ==
  installCalled(installFound(Find(idxs, name), name, cache, dl), name)

\* Manager.Download.
Download(idxs, loaded, cache, name, dl) == Install(idxs, loaded, cache, name, dl)

\* An iteration that drops the error of Install, so that the loop goes on.
upgradeStepGoesOn(acc, candidate, r) ==
  [err |-> NoErr,
   val |-> IF r.err = NoErr
           THEN Append(acc.val, [Upgrade |-> candidate, Destination |-> r.val])
           ELSE acc.val,
   calls |-> acc.calls \o r.calls,
   readIndexes |-> acc.readIndexes,
   installs |-> acc.installs \o r.installs]

\* One iteration of the loop of Upgrade: r is what Install returned for the
\* candidate; a result is appended when it returned no error.
upgradeStep(acc, candidate, r) ==
  [err |-> r.err,
   val |-> IF r.err = NoErr
           THEN Append(acc.val, [Upgrade |-> candidate, Destination |-> r.val])
           ELSE acc.val,
   calls |-> acc.calls \o r.calls,
   readIndexes |-> acc.readIndexes,
   installs |-> acc.installs \o r.installs]

\* The loop of Upgrade over the candidates, left at the first error; dls[k]
\* is what DownloadToFile returns in the k-th Install.
RECURSIVE upgradeLoop(_, _, _, _, _, _, _)
upgradeLoop(candidates, k, acc, idxs, loaded, cache, dls) ==
  IF k > Len(candidates) \/ acc.err # NoErr THEN acc
  ELSE upgradeLoop(candidates, k + 1,
                   upgradeStep(acc, candidates[k],
                               Install(idxs, loaded, cache, candidates[k].Name, dls[k])),
                   idxs, loaded, cache, dls)

\* Upgrade once ListUpgradable has returned l.
upgradeListed(l, idxs, loaded, cache, dls) ==
  IF l.err # NoErr THEN l
  ELSE upgradeLoop(l.val, 1, Result(NoErr, << >>, << >>, TRUE), idxs, loaded, cache, dls)

\* Manager.Upgrade.
Upgrade(idxs, loaded, st, cache, patterns, dls) ==
  upgradeListed(ListUpgradable(idxs, loaded, st, patterns), idxs, loaded, cache, dls)

\* The paths removed by the loop of Clean over the directory entries, up to
\* the entry whose os.Remove fails (failAt, 0 when none does); directories
\* are skipped.
RECURSIVE cleanLoop(_, _, _, _, _)
cleanLoop(entries, k, cache, failAt, removed) ==
  IF k > Len(entries) THEN Result(NoErr, removed, << >>, FALSE)
  ELSE IF entries[k].isDir THEN cleanLoop(entries, k + 1, cache, failAt, removed)
  ELSE IF k = failAt THEN Result(Err("io", << >>), removed, << >>, FALSE)
  ELSE cleanLoop(entries, k + 1, cache, failAt,
                 Append(removed, filepathJoin(cache, entries[k].name)))

\* Manager.Clean: readErr is what os.ReadDir(m.cache) returns ("nil",
\* "notExist" or "other") and entries the directory it lists. The value of
\* the result is the list of the paths removed.
Clean(cache, readErr, entries, failAt) ==
  IF readErr = "notExist" THEN Result(NoErr, << >>, << >>, FALSE)
  ELSE IF readErr # "nil" THEN Result(Err("io", << >>), << >>, << >>, FALSE)
  ELSE cleanLoop(entries, 1, cache, failAt, << >>)

\* StatusParagraphs and GlobStatus.
StatusParagraphs(st, patterns) ==
  LET match(e) == matchesAny(e.Name, patterns)
  IN  IF Len(patterns) = 0 THEN Entries(st) ELSE SelectSeq(Entries(st), match)

rawsOf(es) == [i \in 1..Len(es) |-> es[i].Raw]

GlobStatus(st, patterns) == rawsOf(StatusParagraphs(st, patterns))


(***************************************************************************)
(* internal/pkgmgr: relations, reverse dependencies, find, info            *)
(***************************************************************************)

\* The token of one alternative of a clause: the text before the first of
\* " (<>=", trimmed.
relationToken(part) ==
  LET idx == IndexAny(part, { " ", "(", "<", ">", "=" })
  IN  IF idx >= 0 THEN TrimSpace(Take(part, idx)) ELSE part

RECURSIVE clauseTokens(_)
clauseTokens(parts) ==
  IF parts = << >> THEN << >>
  ELSE LET part == TrimSpace(parts[1])
       IN  (IF part = << >> THEN << >> ELSE << relationToken(part) >>)
             \o clauseTokens(Tail(parts))

RECURSIVE clausesTokens(_)
clausesTokens(clauses) ==
  IF clauses = << >> THEN << >>
  ELSE LET clause == TrimSpace(clauses[1])
       IN  (IF clause = << >> THEN << >> ELSE clauseTokens(Split(clause, "|")))
             \o clausesTokens(Tail(clauses))

tokensFromRelations(field) == clausesTokens(Split(field, ","))

anyTokenMatches(tokens, pattern) ==
  \E i \in 1..Len(tokens) : isMatch(pathMatch(pattern, tokens[i]))

\* A match of the pattern against the whole field instead of its tokens.
relationMatchesWholeField(field, pattern) ==
  IF field = << >> THEN FALSE
  ELSE isMatch(pathMatch(pattern, field))

relationMatches(field, pattern) ==
  IF field = << >> THEN FALSE
  ELSE anyTokenMatches(tokensFromRelations(field), pattern)

filterInstalled(pkgs, st) ==
  LET keep(p) == Installed(st, p.Name) IN SelectSeq(pkgs, keep)

\* The packages appendMissingInstalled builds from status entries.
statusPackages(es) ==
  [i \in 1..Len(es) |->
     [Name |-> es[i].Name, Version |-> es[i].Version,
      Architecture |-> << >>,
      Description |-> Value(es[i].Raw, kDescription),
      Filename |-> << >>, Size |-> << >>,
      Feed |-> NoIndex.Feed, Raw |-> es[i].Raw]]

namesOf(pkgs) == { pkgs[i].Name : i \in 1..Len(pkgs) }

entriesNotIn(st, seen) ==
  LET miss(e) == e.Name \notin seen IN SelectSeq(Entries(st), miss)

appendMissingInstalled(pkgs, st) ==
  pkgs \o statusPackages(entriesNotIn(st, namesOf(pkgs)))

\* One scan of the universe for a target: the packages not yet matched whose
\* field matches are marked, and enqueued when the query is recursive.
RECURSIVE scanUniverse(_, _, _, _, _, _)
scanUniverse(universe, target, field, recursive, queue, matched) ==
  IF universe = << >> THEN [queue |-> queue, matched |-> matched]
  ELSE LET pkg == universe[1]
       IN  IF pkg.Name \in matched
           THEN scanUniverse(Tail(universe), target, field, recursive, queue, matched)
           ELSE IF relationMatches(Value(pkg.Raw, field), target)
           THEN scanUniverse(Tail(universe), target, field, recursive,
                             IF recursive THEN Append(queue, pkg.Name) ELSE queue,
                             matched \cup { pkg.Name })
           ELSE scanUniverse(Tail(universe), target, field, recursive, queue, matched)

\* The queue loop of ReverseDependencies. [matched, pops, scans].
RECURSIVE reverseLoop(_, _, _, _, _, _, _, _)
RECURSIVE reverseScanned(_, _, _, _, _, _, _)
reverseScanned(r, seenTargets, universe, field, recursive, pops, scans) ==
  reverseLoop(r.queue, seenTargets, r.matched, universe, field, recursive, pops, scans)

reverseLoop(queue, seenTargets, matched, universe, field, recursive, pops, scans) ==
  IF queue = << >> THEN [matched |-> matched, pops |-> pops, scans |-> scans]
  ELSE IF queue[1] \in seenTargets
  THEN reverseLoop(Tail(queue), seenTargets, matched, universe, field, recursive,
                   pops + 1, scans)
  ELSE reverseScanned(scanUniverse(universe, queue[1], field, recursive, Tail(queue), matched),
                      seenTargets \cup { queue[1] }, universe, field, recursive,
                      pops + 1, Append(scans, queue[1]))

\* The universe of ReverseDependencies for one iteration order all of
\* IndexSet.All.
reverseUniverse(all, st, includeAll) ==
  IF includeAll THEN appendMissingInstalled(all, st)
  ELSE appendMissingInstalled(filterInstalled(all, st), st)

\* ReverseDependencies for one iteration order all of IndexSet.All.
ReverseDependencies(all, loaded, st, q) ==
  IF ensureIndexesLoaded(loaded) # NoErr
  THEN Result(ensureIndexesLoaded(loaded), << >>, << >>, FALSE)
  ELSE IF Len(q.Patterns) = 0 THEN Result(Err("noPatterns", << >>), << >>, << >>, FALSE)
  ELSE LET universe == reverseUniverse(all, st, q.IncludeAll)
           r == reverseLoop(q.Patterns, { }, { }, universe, q.Field, q.Recursive, 0, << >>)
       IN  Result(NoErr, SortStrings(r.matched), << >>, TRUE)

RelationFields ==
  << kDepends, << "P", "r", "e", "-", "D", "e", "p", "e", "n", "d", "s" >>, << "R", "e", "c", "o", "m", "m", "e", "n", "d", "s" >>, << "S", "u", "g", "g", "e", "s", "t", "s" >>, << "P", "r", "o", "v", "i", "d", "e", "s" >>,
     << "C", "o", "n", "f", "l", "i", "c", "t", "s" >>, << "R", "e", "p", "l", "a", "c", "e", "s" >> >>

\* dependenciesFromParagraph: the fields with a non-empty value, with their
\* tokens.
dependenciesFromParagraph(p) ==
  LET fs == { RelationFields[i] : i \in { j \in 1..Len(RelationFields) :
                                            Value(p, RelationFields[j]) # << >> } }
  IN  [f \in fs |-> tokensFromRelations(Value(p, f))]

\* Manager.Dependencies.
Dependencies(idxs, loaded, st, name) ==
  IF ensureIndexesLoaded(loaded) # NoErr
  THEN Result(ensureIndexesLoaded(loaded), << >>, << >>, FALSE)
  ELSE LET f == Find(idxs, name)
       IN  IF ~f.ok
           THEN LET l == Lookup(st, name)
                IN  IF l.err # NoErr THEN Result(Err("notFound", name), << >>, << >>, TRUE)
                    ELSE Result(NoErr, dependenciesFromParagraph(l.entry.Raw), << >>, TRUE)
           ELSE Result(NoErr, dependenciesFromParagraph(f.pkg.Raw), << >>, TRUE)

\* strings.ToLower on an ASCII string, as the codes of its bytes.
ToLowerCodes(s) == [i \in 1..Len(s) |-> LowerCode(s[i])]

ContainsFold(s, sub) ==
  LET a == ToLowerCodes(s)
      b == ToLowerCodes(sub)
  IN  \E i \in 0..(Len(a) - Len(b)) : SubSeq(a, i + 1, i + Len(b)) = b

\* Manager.FindPackages: the set of results the call may return.
FindPackages(idxs, loaded, pattern) ==
  IF ensureIndexesLoaded(loaded) # NoErr
  THEN { Result(ensureIndexesLoaded(loaded), << >>, << >>, FALSE) }
  ELSE LET hit(p) == ContainsFold(p.Name, pattern) \/ ContainsFold(p.Description, pattern)
       IN  { Result(NoErr, sorted, << >>, TRUE) :
               sorted \in UNION { SortedByName(SelectSeq(all, hit)) : all \in All(idxs) } }

\* The status entries InfoParagraphs adds: those whose name no index package
\* of the result has and that match.
infoEntries(st, seen, patterns) ==
  LET more(e) == e.Name \notin seen /\ matchesAny(e.Name, patterns)
  IN  SelectSeq(Entries(st), more)

infoMatched(ps, st, patterns) ==
  Result(NoErr, rawsOf(ps) \o rawsOf(infoEntries(st, namesOf(ps), patterns)), << >>, TRUE)

\* Manager.InfoParagraphs for one iteration order all of IndexSet.All.
InfoParagraphs(all, loaded, st, patterns) ==
  IF ensureIndexesLoaded(loaded) # NoErr
  THEN Result(ensureIndexesLoaded(loaded), << >>, << >>, FALSE)
  ELSE LET match(p) == matchesAny(p.Name, patterns)
       IN  infoMatched(SelectSeq(all, match), st, patterns)

\* formatParagraph of the manager: "key: value" lines in sorted key order,
\* joined by newlines, a newline inside a value followed by a space.
formatParagraph(p) ==
  LET keys == SortStrings(DOMAIN p)
  IN  JoinStr([i \in 1..Len(keys) |->
                 keys[i] \o << ":", " " >> \o ReplaceNewlines(p[keys[i]], << "\n", " " >>)],
              << "\n" >>)

\* Manager.Info.
Info(idxs, st, name) ==
  LET f == Find(idxs, name)
  IN  IF ~f.ok
      THEN LET l == Lookup(st, name)
           IN  IF l.err = NoErr THEN Result(NoErr, formatParagraph(l.entry.Raw), << >>, TRUE)
               ELSE Result(Err("notFound", name), << >>, << >>, TRUE)
      ELSE Result(NoErr, formatParagraph(f.pkg.Raw), << >>, TRUE)

\* Manager.List for one iteration order all of IndexSet.All.
List(all, st, installedOnly) ==
  IF installedOnly
  THEN LET es == Entries(st)
       IN  Result(NoErr, [i \in 1..Len(es) |-> es[i].Name \o << " ", "-", " " >> \o es[i].Version],
                  << >>, FALSE)
  ELSE Result(NoErr,
              [i \in 1..Len(all) |->
                 all[i].Name \o << " ", "-", " " >> \o ReplaceNewlines(all[i].Description, << " " >>)
                   \o (IF Installed(st, all[i].Name) THEN << " ", "[", "i", "n", "s", "t", "a", "l", "l", "e", "d", "]" >> ELSE << >>)],
              << >>, TRUE)


(***************************************************************************)
(* internal/pkgmgr: Manager.Update                                         *)
(***************************************************************************)

\* What repo.Update returns after wg.Wait: (nil, firstErr) when a feed
\* failed, (result, nil) otherwise.
repoUpdateReturn(res, ferr) ==
  IF ferr # NoErr THEN [indexes |-> << >>, err |-> ferr]
  ELSE [indexes |-> res, err |-> NoErr]

\* The value of Manager.indexesLoaded after repo.Update has returned no
\* error.
indexesLoadedAfterUpdate(loaded) == TRUE

\* Manager.Update that commits what repo.Update returned whatever the error.
ManagerUpdateCommitsAlways(idx, loaded, r) ==
  [indexes |-> r.indexes, loaded |-> loaded, err |-> r.err]

\* Manager.Update that clears the flag when repo.Update failed.
ManagerUpdateResetsFlag(idx, loaded, r) ==
  IF r.err # NoErr THEN [indexes |-> idx, loaded |-> FALSE, err |-> r.err]
  ELSE [indexes |-> r.indexes, loaded |-> indexesLoadedAfterUpdate(loaded), err |-> NoErr]

\* Manager.Update once repo.Update has returned r: on an error nothing is
\* assigned, otherwise the index set is replaced by NewIndexSet(r.indexes).
ManagerUpdate(idx, loaded, r) ==
  IF r.err # NoErr THEN [indexes |-> idx, loaded |-> loaded, err |-> r.err]
  ELSE [indexes |-> r.indexes, loaded |-> indexesLoadedAfterUpdate(loaded), err |-> NoErr]

(***************************************************************************)
(* The state machine: one manager and its single caller                    *)
(***************************************************************************)

\* The longest pattern list a query is called with.
MaxPatterns == 1

PatternChoices == { << "A" >>, << "C" >>, << "?" >>, << "[" >>, << "[", "B", "-", "D", "]" >> }

RECURSIVE SeqsUpTo(_, _)
SeqsUpTo(S, n) ==
  IF n = 0 THEN { << >> }
  ELSE SeqsUpTo(S, n - 1) \cup
       { Append(q, x) : q \in { t \in SeqsUpTo(S, n - 1) : Len(t) = n - 1 }, x \in S }

PatternLists == SeqsUpTo(PatternChoices, MaxPatterns)

NameChoices == { nA, nB, nC, nD, nE }

NoRet == [op |-> "none", args |-> << >>, err |-> NoErr, val |-> << >>, calls |-> << >>,
          readIndexes |-> FALSE, installs |-> << >>]

Returned(op, args, r) ==
  [op |-> op, args |-> args, err |-> r.err, val |-> r.val, calls |-> r.calls,
   readIndexes |-> r.readIndexes, installs |-> r.installs]

\* pkgmgr.New: the configuration and the status database are loaded, the
\* index set is empty and the flag false; nothing is fetched.
Init ==
  /\ cfg \in { [Feeds |-> Feeds(u), cache |-> c] : u \in FeedURIs, c \in CacheDirs }
  /\ status \in StatusDatabases
  /\ indexes = << >>
  /\ indexesLoaded = FALSE
  /\ pc = "idle"
  /\ gor = [i \in 1..NumFeeds |-> "none"]
  /\ result = << >>
  /\ firstErr = NoErr
  /\ ret = NoRet
  /\ fsys = << >>
  /\ frame = << >>

\* Manager.Update calls repo.Update, which starts one goroutine per feed.
UpdateBegin ==
  /\ pc = "idle"
  /\ pc' = "updating"
  /\ gor' = [i \in 1..NumFeeds |-> "running"]
  /\ result' = << >>
  /\ firstErr' = NoErr
  /\ UNCHANGED << cfg, status, indexes, indexesLoaded, ret, fsys, frame >>

\* The goroutine of feed i: fetchFeed, then under the mutex either the first
\* error is recorded or the index is appended to result.
FeedGoroutine(i) ==
  /\ pc = "updating"
  /\ gor[i] = "running"
  /\ \E env \in ObservedFetchEnvs(i) :
       LET r == fetchFeed(cfg.Feeds[i], cfg.cache, env)
       IN  /\ firstErr' = IF r.err # NoErr /\ firstErr = NoErr THEN r.err ELSE firstErr
           /\ result' = IF r.err # NoErr THEN result ELSE Append(result, r.index)
  /\ gor' = [gor EXCEPT ![i] = "done"]
  /\ UNCHANGED << cfg, status, indexes, indexesLoaded, pc, ret, fsys, frame >>

\* wg.Wait returns once every goroutine is done; repo.Update and then
\* Manager.Update return.
UpdateEnd ==
  /\ pc = "updating"
  /\ \A i \in 1..NumFeeds : gor[i] = "done"
  /\ LET m == ManagerUpdate(indexes, indexesLoaded, repoUpdateReturn(result, firstErr))
     IN  /\ indexes' = m.indexes
         /\ indexesLoaded' = m.loaded
         /\ ret' = Returned("Update", << >>, Result(m.err, << >>, << >>, FALSE))
  /\ pc' = "returned"
  /\ UNCHANGED << cfg, status, gor, result, firstErr, fsys, frame >>

\* A call that changes no field of the manager: the caller gets its result,
\* which lists the DownloadToFile calls it made.
Query(op, args, r) ==
  /\ pc = "idle"
  /\ pc' = "returned"
  /\ ret' = Returned(op, args, r)
  /\ UNCHANGED << cfg, status, indexes, indexesLoaded, gor, result, firstErr, fsys, frame >>

\* An Install that records the package it downloaded in the status database.
DoInstallRecordsStatus ==
  \E name \in NameChoices, dl \in DownloadOutcomes :
     /\ pc = "idle"
     /\ pc' = "returned"
     /\ ret' = Returned("Install", name, Install(indexes, indexesLoaded, cfg.cache, name, dl))
     /\ status' = IF ret'.err = NoErr
                  THEN (name :> statusEntry(name, Find(indexes, name).pkg.Version,
                                            stInstalled, << >>)) @@ status
                  ELSE status
     /\ UNCHANGED << cfg, indexes, indexesLoaded, gor, result, firstErr, fsys, frame >>

DoInstall ==
  \E name \in NameChoices, dl \in DownloadOutcomes :
     Query("Install", name, Install(indexes, indexesLoaded, cfg.cache, name, dl))

DoDownload ==
  \E name \in NameChoices, dl \in DownloadOutcomes :
     Query("Download", name, Download(indexes, indexesLoaded, cfg.cache, name, dl))

DoUpgrade ==
  \E patterns \in PatternLists :
     \E dls \in [1..Len(ListUpgradable(indexes, indexesLoaded, status, patterns).val)
                  -> DownloadOutcomes] :
        Query("Upgrade", patterns,
                 Upgrade(indexes, indexesLoaded, status, cfg.cache, patterns, dls))

\* The cache directory is shared with the rest of the system: what
\* os.ReadDir lists is an input of Clean.
DirListings ==
  { << >>,
    << [name |-> << "A", ".", "i", "p", "k" >>, isDir |-> FALSE], [name |-> << "s", "u", "b" >>, isDir |-> TRUE],
       [name |-> << "x", ".", "P", "a", "c", "k", "a", "g", "e", "s" >>, isDir |-> FALSE] >> }

DoClean ==
  \E readErr \in { "nil", "notExist", "other" }, entries \in DirListings :
     \E failAt \in 0..Len(entries) :
        Query("Clean", << >>, Clean(cfg.cache, readErr, entries, failAt))

\* ListPackages under every iteration order of the index maps and every
\* outcome of the unstable sort.
DoListPackages ==
  \E sorted \in UNION { SortedByName(all) : all \in All(indexes) } :
     \E installedOnly, short \in BOOLEAN, patterns \in PatternLists :
        LET opts == [InstalledOnly |-> installedOnly, Patterns |-> patterns,
                     ShortDescription |-> short, IncludeSize |-> ~short]
        IN  Query("ListPackages", opts, ListPackages(sorted, indexesLoaded, status, opts))

DoListUpgradable ==
  \E patterns \in PatternLists :
     Query("ListUpgradable", patterns, ListUpgradable(indexes, indexesLoaded, status, patterns))

DoReverseDependencies ==
  \E all \in All(indexes) :
     \E includeAll, recursive \in BOOLEAN, patterns \in PatternLists :
        LET q == [Field |-> kDepends, IncludeAll |-> includeAll, Recursive |-> recursive,
                  Patterns |-> patterns]
        IN  Query("ReverseDependencies", q, ReverseDependencies(all, indexesLoaded, status, q))

DoDependencies ==
  \E name \in NameChoices :
     Query("Dependencies", name, Dependencies(indexes, indexesLoaded, status, name))

DoFindPackages ==
  \E pattern \in { << >>, << "L", "I", "B" >>, << "a" >> } :
     \E r \in FindPackages(indexes, indexesLoaded, pattern) : Query("FindPackages", pattern, r)

DoInfoParagraphs ==
  \E all \in All(indexes) :
     \E patterns \in PatternLists :
        Query("InfoParagraphs", patterns, InfoParagraphs(all, indexesLoaded, status, patterns))

DoGlobStatus ==
  \E patterns \in PatternLists :
     Query("GlobStatus", patterns, Result(NoErr, GlobStatus(status, patterns), << >>, FALSE))

DoInfo ==
  \E name \in NameChoices : Query("Info", name, Info(indexes, status, name))

DoList ==
  \E installedOnly \in BOOLEAN, all \in All(indexes) :
     Query("List", installedOnly, List(all, status, installedOnly))

\* The caller takes the result and is ready for its next call. The locals of
\* a finished repo.Update are shown until then.
Consume ==
  /\ pc = "returned"
  /\ pc' = "idle"
  /\ ret' = NoRet
  /\ gor' = [i \in 1..NumFeeds |-> "none"]
  /\ result' = << >>
  /\ firstErr' = NoErr
  /\ UNCHANGED << cfg, status, indexes, indexesLoaded, fsys, frame >>

Next ==
  \/ UpdateBegin
  \/ \E i \in 1..NumFeeds : FeedGoroutine(i)
  \/ UpdateEnd
  \/ DoInstall
  \/ DoDownload
  \/ DoUpgrade
  \/ DoClean
  \/ DoListPackages
  \/ DoListUpgradable
  \/ DoReverseDependencies
  \/ DoDependencies
  \/ DoFindPackages
  \/ DoInfoParagraphs
  \/ DoGlobStatus
  \/ DoInfo
  \/ DoList
  \/ Consume

Spec == Init /\ [][Next]_vars


(***************************************************************************)
(* Properties of Update and of the queries that need the indexes           *)
(***************************************************************************)

\* Update returns in this step.
UpdateReturns == pc = "updating" /\ pc' = "returned"

\* C1: Update returns only once every feed goroutine has finished; when a
\* feed has failed (fewer indexes were collected than there are feeds) it
\* returns the error recorded first, and the index set and the flag of the
\* manager are what they were before the call, the collected indexes being
\* dropped.
C1_FailedUpdateKeepsIndexes ==
  [][UpdateReturns =>
       /\ \A i \in 1..NumFeeds : gor[i] = "done"
       /\ Len(result) < NumFeeds =>
            /\ ret'.op = "Update"
            /\ ret'.err # NoErr
            /\ ret'.err = firstErr
            /\ indexes' = indexes
            /\ indexesLoaded' = indexesLoaded]_vars

\* A failed Update on a manager whose index set was loaded before, one feed
\* of the failed call having succeeded.
C1_Witness ==
  /\ pc = "returned" /\ ret.op = "Update" /\ ret.err # NoErr
  /\ result # << >> /\ Len(result) < NumFeeds
  /\ indexes # << >>

\* C2: after a successful Update the indexes are in the order the feeds are
\* declared in, and Find returns, for a name several feeds hold, the package
\* of the earliest declared of them.
C2_DeclaredFeedOrder ==
  (pc = "returned" /\ ret.op = "Update" /\ ret.err = NoErr) =>
     /\ Len(indexes) = Len(cfg.Feeds)
     /\ \A i \in 1..Len(indexes) : indexes[i].Feed = cfg.Feeds[i]
     /\ \A n \in NameChoices :
          \A i \in 1..Len(indexes) :
             (/\ n \in DOMAIN indexes[i].Packages
              /\ \A j \in 1..(i - 1) : n \notin DOMAIN indexes[j].Packages)
               => Find(indexes, n).pkg.Feed = cfg.Feeds[i]

NeedsIndexes(r) ==
  \/ r.op \in { "ListUpgradable", "Upgrade", "ReverseDependencies", "Dependencies",
                "FindPackages", "InfoParagraphs" }
  \/ r.op = "ListPackages" /\ ~r.args.InstalledOnly

\* C4: while the flag is false, a query that needs the indexes returns the
\* indexes-not-loaded error and no value, has not read the index set and has
\* called neither Install nor DownloadToFile.
C4_QueriesNeedIndexes ==
  (pc = "returned" /\ ~indexesLoaded /\ NeedsIndexes(ret)) =>
     /\ ret.err = Err("indexesNotLoaded", << >>)
     /\ ret.val = << >>
     /\ ~ret.readIndexes
     /\ ret.calls = << >>
     /\ ret.installs = << >>

\* Upgrade has returned on a manager on which no Update has succeeded.
C4_Witness ==
  /\ pc = "returned" /\ ~indexesLoaded /\ ret.op = "Upgrade"
  /\ ret.err.kind = "indexesNotLoaded"

\* C5: while the flag is false, Install and Download return the
\* indexes-not-loaded error and call DownloadToFile not at all.
C5_InstallNeedsIndexes ==
  (pc = "returned" /\ ~indexesLoaded /\ ret.op \in { "Install", "Download" }) =>
     /\ ret.err = Err("indexesNotLoaded", << >>)
     /\ ret.calls = << >>

(***************************************************************************)
(* Properties of Install, of the status database and of Upgrade            *)
(***************************************************************************)

WithoutOneTrailingSlash(s) ==
  IF s # << >> /\ s[Len(s)] = "/" THEN SubSeq(s, 1, Len(s) - 1) ELSE s

WithoutOneLeadingSlash(s) ==
  IF s # << >> /\ s[1] = "/" THEN Tail(s) ELSE s

\* b is the base name of the path f: "." for the empty path, "/" for a path
\* of slashes only, otherwise the last slash-free element, the slashes after
\* it left out.
IsBaseName(b, f) ==
  IF f = << >> THEN b = << "." >>
  ELSE IF \A i \in 1..Len(f) : f[i] = "/" THEN b = << "/" >>
  ELSE /\ b # << >>
       /\ \A i \in 1..Len(b) : b[i] # "/"
       /\ \E k \in 0..Len(f) :
            /\ k + Len(b) <= Len(f)
            /\ SubSeq(f, k + 1, k + Len(b)) = b
            /\ k = 0 \/ f[k] = "/"
            /\ \A i \in (k + Len(b) + 1)..Len(f) : f[i] = "/"

BaseNameChoices(f) ==
  { << "." >>, << "/" >> } \cup { SubSeq(f, i, j) : i, j \in 1..Len(f) }

\* What Install and Download do for the package Find returns, given how the
\* URL is made of the feed URI and the filename: one DownloadToFile call,
\* for that URL and for the clean form of cache directory, "/" and base name
\* of the filename, which is the value returned when the call succeeds; no
\* call when no package is found or it has no filename.
InstallTarget(urlOf(_)) ==
  (pc = "returned" /\ ret.op \in { "Install", "Download" }) =>
     LET f == Find(indexes, ret.args)
     IN  IF f.ok /\ f.pkg.Filename # << >>
         THEN /\ Len(ret.calls) = 1
              /\ ret.calls[1].url = urlOf(f.pkg)
              /\ \E b \in BaseNameChoices(f.pkg.Filename) :
                    /\ IsBaseName(b, f.pkg.Filename)
                    /\ ret.calls[1].path = filepathClean(cfg.cache \o << "/" >> \o b)
              /\ ret.err = NoErr => ret.val = ret.calls[1].path
         ELSE ret.calls = << >>

URLOneSlashOff(pkg) ==
  WithoutOneTrailingSlash(pkg.Feed.URI) \o << "/" >> \o WithoutOneLeadingSlash(pkg.Filename)

URLAllSlashesOff(pkg) ==
  TrimRight(pkg.Feed.URI, { "/" }) \o << "/" >> \o TrimLeft(pkg.Filename, { "/" })

\* C6, as the code has it: the URL is the feed URI without one trailing
\* slash, if it ends in one, then "/", then the filename without one leading
\* slash, if it begins with one; the destination is the clean form of cache
\* directory, "/" and base name of the filename.
C6_InstallTargetOneSlash == InstallTarget(URLOneSlashOff)

\* Install of a package whose feed URI ends in two slashes and whose
\* filename begins with two.
C6_Witness ==
  /\ pc = "returned" /\ ret.op = "Install" /\ Len(ret.calls) = 1
  /\ ret.calls[1].url = << "u", "/", "/", "/", "C", ".", "i", "p", "k" >>

\* C6, as stated: the URL is the feed URI without any of its trailing
\* slashes, then "/", then the filename without any of its leading slashes.
C6_InstallTargetAllSlashes == InstallTarget(URLAllSlashesOff)

\* C7: no step changes what Entries and Lookup return: the status database
\* is the one loaded at construction.
C7_StatusNeverMutated ==
  [][/\ Entries(status') = Entries(status)
     /\ \A n \in NameChoices : Lookup(status', n) = Lookup(status, n)]_vars

\* Install has downloaded a package the status database has an entry for.
C7_Witness ==
  /\ pc = "returned" /\ ret.op = "Install" /\ ret.err = NoErr
  /\ ret.args \in DOMAIN status

\* C8: Upgrade calls Install for a prefix of the candidates ListUpgradable
\* returns, which are in ascending name order; without an error the prefix
\* is the whole list; with an error the last Install called is the one that
\* returned it and there is one result for each candidate before it; the
\* i-th result is that of the i-th candidate with the destination its
\* Install returned.
C8_UpgradeStopsAtFirstFailure ==
  (pc = "returned" /\ ret.op = "Upgrade" /\ indexesLoaded) =>
     LET cs == ListUpgradable(indexes, indexesLoaded, status, ret.args).val
         n  == Len(ret.installs)
     IN  /\ \A i \in 1..(Len(cs) - 1) : StrLess(cs[i].Name, cs[i + 1].Name)
         /\ n <= Len(cs)
         /\ \A i \in 1..n : ret.installs[i] = cs[i].Name
         /\ IF ret.err = NoErr
            THEN n = Len(cs) /\ Len(ret.val) = n
            ELSE /\ n >= 1
                 /\ Len(ret.val) = n - 1
                 /\ \E dl \in DownloadOutcomes :
                       Install(indexes, indexesLoaded, cfg.cache, cs[n].Name, dl).err = ret.err
         /\ \A i \in 1..Len(ret.val) :
              /\ ret.val[i].Upgrade = cs[i]
              /\ Install(indexes, indexesLoaded, cfg.cache, cs[i].Name, NoErr).err = NoErr
              /\ Install(indexes, indexesLoaded, cfg.cache, cs[i].Name, NoErr).val
                   = ret.val[i].Destination

\* Upgrade has failed at the second of its candidates and returns the result
\* of the first.
C8_Witness ==
  /\ pc = "returned" /\ ret.op = "Upgrade" /\ ret.err # NoErr
  /\ Len(ret.val) = 1 /\ Len(ret.installs) = 2

\* C9: with the indexes loaded ListUpgradable returns no error; a status
\* entry has a candidate exactly when its name matches the patterns, Find
\* finds a package of that name and the entry has the lower version; the
\* candidate has the version of the entry and that of the package; the
\* names of the result are in strictly ascending order.
C9_ListUpgradableCandidates ==
  (pc = "returned" /\ ret.op = "ListUpgradable" /\ indexesLoaded) =>
     /\ ret.err = NoErr
     /\ \A i \in 1..(Len(ret.val) - 1) : StrLess(ret.val[i].Name, ret.val[i + 1].Name)
     /\ \A i \in 1..Len(ret.val) : ret.val[i].Name \in DOMAIN status
     /\ \A n \in DOMAIN status :
          LET f  == Find(indexes, n)
              at == { i \in 1..Len(ret.val) : ret.val[i].Name = n }
          IN  /\ at # { } <=> /\ matchesAny(n, ret.args)
                              /\ f.ok
                              /\ Compare(status[n].Version, f.pkg.Version) < 0
              /\ \A i \in at : /\ ret.val[i].Installed = status[n].Version
                               /\ ret.val[i].Available = f.pkg.Version

\* ListUpgradable has returned two candidates and left out the entry B,
\* whose name matches and whose version is the one the feeds have.
C9_Witness ==
  /\ pc = "returned" /\ ret.op = "ListUpgradable" /\ indexesLoaded
  /\ Len(ret.val) = 2
  /\ nB \in DOMAIN status /\ matchesAny(nB, ret.args)
  /\ Find(indexes, nB).ok
  /\ Compare(status[nB].Version, Find(indexes, nB).pkg.Version) = 0

(***************************************************************************)
(* Properties of ReverseDependencies                                       *)
(***************************************************************************)

\* The tokens the relation field of a universe package holds.
FieldTokens(pkg, field) == Range(tokensFromRelations(Value(pkg.Raw, field)))

\* The field of the package holds a token that matches one of the patterns.
HoldsMatchingToken(pkg, field, patterns) ==
  \E t \in FieldTokens(pkg, field) :
     \E i \in 1..Len(patterns) :
        LET m == pathMatch(patterns[i], t) IN ~m.err /\ m.ok

UniverseNames(universe) == { universe[i].Name : i \in 1..Len(universe) }

\* The names of the universe packages whose field holds a matching token.
DirectDependents(universe, field, patterns) ==
  { universe[i].Name : i \in { j \in 1..Len(universe) :
                                 HoldsMatchingToken(universe[j], field, patterns) } }

\* S is closed: it has the direct dependents and every universe package
\* whose field holds the name of a package in S.
ClosedUnderDependents(S, direct, universe, field) ==
  /\ direct \subseteq S
  /\ \A i \in 1..Len(universe) :
       FieldTokens(universe[i], field) \cap S # { } => universe[i].Name \in S

LeastOf(names, direct, universe, field) ==
  { n \in names :
      \A S \in SUBSET names : ClosedUnderDependents(S, direct, universe, field) => n \in S }

\* The least closed set: what all closed sets of universe names share.
LeastClosed(universe, field, patterns) ==
  LeastOf(UniverseNames(universe), DirectDependents(universe, field, patterns),
          universe, field)

\* The universe of the example: A, B, C and D, all installed, where A
\* depends on B, B on C, D on A (or on E, which is not there) and C on
\* nothing.
ExampleUniverse(universe, field) ==
  /\ UniverseNames(universe) = { nA, nB, nC, nD }
  /\ \A i \in 1..Len(universe) :
       /\ Installed(status, universe[i].Name)
       /\ universe[i].Name = nA => FieldTokens(universe[i], field) = { nB }
       /\ universe[i].Name = nB => FieldTokens(universe[i], field) = { nC }
       /\ universe[i].Name = nC => FieldTokens(universe[i], field) = { }
       /\ universe[i].Name = nD => FieldTokens(universe[i], field) = { nA, nE }

\* C10: ReverseDependencies returns, in ascending order, the names of the
\* universe packages whose field holds a token matching a pattern when the
\* query is not recursive, and the least set closed under the dependents
\* when it is; in the universe of the example the query A returns D in both
\* modes and the recursive query C returns A, B and D.
C10_ReverseDependenciesClosure ==
  (pc = "returned" /\ ret.op = "ReverseDependencies" /\ ret.err = NoErr) =>
     \A all \in All(indexes) :
        LET q == ret.args
            universe == reverseUniverse(all, status, q.IncludeAll)
        IN  /\ ret.val = SortStrings(IF q.Recursive
                                     THEN LeastClosed(universe, q.Field, q.Patterns)
                                     ELSE DirectDependents(universe, q.Field, q.Patterns))
            /\ ExampleUniverse(universe, q.Field) =>
                 /\ q.Patterns = << nA >> => ret.val = << nD >>
                 /\ (q.Patterns = << nC >> /\ q.Recursive) => ret.val = << nA, nB, nD >>

\* The recursive query C has returned A, B and D in the universe of the
\* example.
C10_Witness ==
  /\ pc = "returned" /\ ret.op = "ReverseDependencies" /\ ret.err = NoErr
  /\ ret.args.Recursive /\ ret.args.Patterns = << nC >>
  /\ ret.val = << nA, nB, nD >>
  /\ \E all \in All(indexes) :
        ExampleUniverse(reverseUniverse(all, status, ret.args.IncludeAll), ret.args.Field)

\* C11: when the query does not include all packages, every name returned
\* is the name of a package that is installed according to the status
\* database (as it would be if the universe held installed packages only).
C11_ReturnedNamesInstalled ==
  (/\ pc = "returned" /\ ret.op = "ReverseDependencies" /\ ret.err = NoErr
   /\ ~ret.args.IncludeAll) =>
     \A i \in 1..Len(ret.val) : Installed(status, ret.val[i])

(***************************************************************************)
(* The version comparison on its own: a caller of Compare and CompareOp    *)
(***************************************************************************)

\* The longest version string made of the characters of VersionAlphabet.
MaxVersionLen == 2

VersionAlphabet == { "0", "1", "~", "a", ":" }

\* Version strings in use, among them those of the tests of the package and
\* some with a revision.
VersionExamples ==
  { << "1", ".", "0" >>, << "1", ".", "0", "~", "b", "e", "t", "a" >>, << "1", ".", "0", "-", "1" >>, << "1", ".", "0", "-", "2" >>, << "1", ".", "0", "-", "1", "0" >>, << "1", ".", "1", "0" >>, << "1", ".", "9" >>,
    << "0", "0", "1" >>, << "1", ":", "0", ".", "9" >>, << "2", ":", "0", ".", "1" >>, << "1", "A" >>, << "1", ".", "a", "~" >>, << "x", ":", "1" >>, << "1", "-", "0", "-", "1" >>,
    << "-" >>, << "1", "-" >>, << "-", "1" >>, << "0", "-", "1" >>, << "1", "-", "~" >>, << "a", "-", "a" >>, << "-", "1", ":", "1" >> }

VersionChoices == SeqsUpTo(VersionAlphabet, MaxVersionLen) \cup VersionExamples

OperatorChoices == SupportedOperators \cup { << "!", "=" >>, << >>, << "<", ">" >>, << "=", "<" >> }

\* The longest suffix put after a '~'.
MaxSuffixLen == 2

\* Suffixes without ':' and '-'.
SuffixChoices == SeqsUpTo({ "0", "a", "~" }, MaxSuffixLen) \cup { << "b", "e", "t", "a" >>, << "r", "c", ".", "1" >> }

\* The version strings vs, each with the same string with '~' and a suffix
\* of xs after it, in both orders.
TildePairs(vs, xs) ==
  UNION { { << v \o << "~" >> \o x, v >>, << v, v \o << "~" >> \o x >> } :
          v \in vs, x \in xs }

\* The longest string of digits.
MaxDigits == 3

DigitStrings == SeqsUpTo({ "0", "1", "9" }, MaxDigits) \ { << >> }

\* The caller holds two version strings.
VersionInit ==
  /\ cfg = [Feeds |-> << >>, cache |-> << >>]
  /\ status = << >>
  /\ indexes = << >>
  /\ indexesLoaded = FALSE
  /\ pc = "idle"
  /\ gor = [i \in 1..NumFeeds |-> "none"]
  /\ result = << >>
  /\ firstErr = NoErr
  /\ fsys = << >>
  /\ frame = << >>
  /\ \/ \E p \in VersionChoices \X VersionChoices : ret = [NoRet EXCEPT !.args = p]
     \/ \E p \in TildePairs(VersionChoices, SuffixChoices) : ret = [NoRet EXCEPT !.args = p]
     \/ \E p \in DigitStrings \X DigitStrings : ret = [NoRet EXCEPT !.args = p]

DoCompare ==
  Query("Compare", ret.args,
        Result(NoErr, Compare(ret.args[1], ret.args[2]), << >>, FALSE))

compareOpCall(a, op, b, r) ==
  Query("CompareOp", << a, op, b >>, Result(r.err, r.ok, << >>, FALSE))

DoCompareOp ==
  \E op \in OperatorChoices :
     compareOpCall(ret.args[1], op, ret.args[2], CompareOp(ret.args[1], op, ret.args[2]))

VersionNext == DoCompare \/ DoCompareOp

VersionSpec == VersionInit /\ [][VersionNext]_vars

\* C12: Compare returns -1, 0 or 1, the opposite of what it returns for the
\* arguments exchanged, and 0 for a string and itself.
C12_CompareAntisymmetric ==
  (pc = "returned" /\ ret.op = "Compare") =>
     /\ ret.val \in { -1, 0, 1 }
     /\ ret.val = 0 - Compare(ret.args[2], ret.args[1])
     /\ ret.args[1] = ret.args[2] => ret.val = 0

\* Compare has returned -1 for two strings with different epochs.
C12_Witness ==
  /\ pc = "returned" /\ ret.op = "Compare"
  /\ ret.args = << << "1", ":", "0", ".", "9" >>, << "2", ":", "0", ".", "1" >> >>
  /\ ret.val = -1

\* C13: Compare is transitive: with a third string c, a <= b and b <= c
\* give a <= c, and a = b and b = c give a = c.
C13_CompareTransitive ==
  (pc = "returned" /\ ret.op = "Compare") =>
     \A c \in VersionChoices :
        LET bc == Compare(ret.args[2], c)
            ac == Compare(ret.args[1], c)
        IN  /\ (ret.val <= 0 /\ bc <= 0) => ac <= 0
            /\ (ret.val = 0 /\ bc = 0) => ac = 0

\* Compare has returned 0 for two different strings, one with a leading
\* zero, that are below a third.
C13_Witness ==
  /\ pc = "returned" /\ ret.op = "Compare"
  /\ ret.args = << << "0", "1" >>, << "1" >> >> /\ ret.val = 0
  /\ \E c \in VersionChoices : Compare(<< "1" >>, c) < 0

\* x is v with '~' and a suffix without ':' and '-' after it.
IsTildeSuffixed(x, v) ==
  /\ Len(x) > Len(v)
  /\ Take(x, Len(v)) = v
  /\ x[Len(v) + 1] = "~"
  /\ \A i \in (Len(v) + 2)..Len(x) : x[i] \notin { ":", "-" }

\* C14: a version with '~' and a suffix (without ':' and '-') after it is
\* below the version itself: Compare(v~s, v) < 0 and Compare(v, v~s) > 0.
C14_TildeSortsBefore ==
  (pc = "returned" /\ ret.op = "Compare") =>
     /\ IsTildeSuffixed(ret.args[1], ret.args[2]) => ret.val < 0
     /\ IsTildeSuffixed(ret.args[2], ret.args[1]) => ret.val > 0

\* Compare has answered "greater" for "1" against "1~".
C14_Witness ==
  /\ pc = "returned" /\ ret.op = "Compare"
  /\ ret.args = << << "1" >>, << "1", "~" >> >>
  /\ IsTildeSuffixed(ret.args[2], ret.args[1])
  /\ ret.val = 1

\* The number a non-empty string of digits writes in base ten.
RECURSIVE NumberOf(_)
NumberOf(x) ==
  IF x = << >> THEN 0
  ELSE (CodeOf[x[1]] - 48) * 10 ^ (Len(x) - 1) + NumberOf(Tail(x))

IsDigitString(x) == x # << >> /\ \A i \in 1..Len(x) : x[i] \in { "0", "1", "2", "3", "4", "5", "6", "7", "8", "9" }

Sign(n) == IF n < 0 THEN -1 ELSE IF n > 0 THEN 1 ELSE 0

\* C15: runs of digits compare as numbers: for non-empty strings of digits
\* x and y, Compare(x, y) is the sign of int(x) - int(y); "001" equals "1"
\* and "1.0-2" is below "1.0-10".
C15_DigitsCompareNumerically ==
  (pc = "returned" /\ ret.op = "Compare") =>
     /\ (IsDigitString(ret.args[1]) /\ IsDigitString(ret.args[2])) =>
           ret.val = Sign(NumberOf(ret.args[1]) - NumberOf(ret.args[2]))
     /\ ret.args = << << "0", "0", "1" >>, << "1" >> >> => ret.val = 0
     /\ ret.args = << << "1", ".", "0", "-", "2" >>, << "1", ".", "0", "-", "1", "0" >> >> => ret.val < 0

\* Compare has answered "less" for "9" against "10", which as strings are
\* in the other order.
C15_Witness ==
  /\ pc = "returned" /\ ret.op = "Compare"
  /\ ret.args = << << "9" >>, << "1", "0" >> >>
  /\ ret.val = -1

\* What an operator says of the result cmp of Compare.
RelationHolds(op, cmp) ==
  CASE op = << "<" >>  -> cmp < 0
    [] op = << "<", "<" >> -> cmp < 0
    [] op = << "<", "=" >> -> cmp <= 0
    [] op = << "=" >>  -> cmp = 0
    [] op = << "=", "=" >> -> cmp = 0
    [] op = << ">" >>  -> cmp > 0
    [] op = << ">", ">" >> -> cmp > 0
    [] op = << ">", "=" >> -> cmp >= 0

RelationOperators == { << "<" >>, << "<", "<" >>, << "<", "=" >>, << "=" >>, << "=", "=" >>, << ">" >>, << ">", ">" >>, << ">", "=" >> }

\* C16: for the operators <, <<, <=, =, ==, >, >>, >= CompareOp returns,
\* without an error, whether the relation holds of Compare(a, b); for any
\* other operator it returns an error and never true.
C16_CompareOpRelations ==
  (pc = "returned" /\ ret.op = "CompareOp") =>
     IF ret.args[2] \in RelationOperators
     THEN /\ ret.err = NoErr
          /\ ret.val = RelationHolds(ret.args[2], Compare(ret.args[1], ret.args[3]))
     ELSE /\ ret.err # NoErr
          /\ ret.val = FALSE

\* CompareOp has answered true for "1.0" << "1.10".
C16_Witness ==
  /\ pc = "returned" /\ ret.op = "CompareOp"
  /\ ret.args = << << "1", ".", "0" >>, << "<", "<" >>, << "1", ".", "1", "0" >> >>
  /\ ret.err = NoErr /\ ret.val = TRUE


(***************************************************************************)
(* internal/format: ParseControl                                           *)
(***************************************************************************)

\* bufio.ScanLines drops one carriage return at the end of a line.
dropCR(line) ==
  IF line # << >> /\ line[Len(line)] = "\r" THEN Take(line, Len(line) - 1) ELSE line

\* The lines scanner.Scan() yields: the text between newlines; what follows
\* the last newline is a line only when it is not empty.
scanTokens(parts) ==
  IF parts[Len(parts)] = << >> THEN Take(parts, Len(parts) - 1) ELSE parts

scanDropCR(tokens) == [i \in 1..Len(tokens) |-> dropCR(tokens[i])]

scanLines(data) == scanDropCR(scanTokens(Split(data, "\n")))

\* A flush that appends the current paragraph even when it has no field.
flushAlways(current, paragraphs) == Append(paragraphs, current)

\* The closure flush: the current paragraph joins the file unless it has no
\* field.
flush(current, paragraphs) ==
  IF DOMAIN current = { } THEN paragraphs ELSE Append(paragraphs, current)

\* current.Fields[key] = value
setField(fields, key, value) ==
  [k \in DOMAIN fields \cup { key } |-> IF k = key THEN value ELSE fields[k]]

\* A continuation that keeps the leading whitespace of the line.
appendContinuationUntrimmed(fields, lastKey, line) ==
  [fields EXCEPT ![lastKey] = @ \o << "\n" >> \o line]

\* current.Fields[lastKey] += "\n" + strings.TrimLeft(line, " \t")
appendContinuation(fields, lastKey, line) ==
  [fields EXCEPT ![lastKey] = @ \o << "\n" >> \o TrimLeft(line, { " ", "\t" })]

\* What ParseControl returns: the control file (nil with an error) and the
\* error.
NilControlFile == [nil |-> TRUE, Paragraphs |-> << >>]

parseFailed(kind, line) == [file |-> NilControlFile, err |-> Err(kind, line)]

parsed(paragraphs) == [file |-> [nil |-> FALSE, Paragraphs |-> paragraphs], err |-> NoErr]

RECURSIVE parseLoop(_, _, _, _)
RECURSIVE parseFieldLine(_, _, _, _, _)

\* The loop over the lines, with the variables current, file.Paragraphs and
\* lastKey.
parseLoop(lines, current, paragraphs, lastKey) ==
  IF lines = << >> THEN parsed(flush(current, paragraphs))
  ELSE IF lines[1] = << >>
  THEN parseLoop(Tail(lines), << >>, flush(current, paragraphs), << >>)
  ELSE IF lines[1][1] \in { " ", "\t" }
  THEN IF lastKey = << >> THEN parseFailed("continuationBeforeKey", lines[1])
       ELSE parseLoop(Tail(lines), appendContinuation(current, lastKey, lines[1]),
                      paragraphs, lastKey)
  ELSE parseFieldLine(lines, IndexAny(lines[1], { ":" }), current, paragraphs, lastKey)

parseFieldLine(lines, colon, current, paragraphs, lastKey) ==
  IF colon < 0 THEN parseFailed("malformedLine", lines[1])
  ELSE parseLoop(Tail(lines),
                 setField(current, TrimSpace(Take(lines[1], colon)),
                          TrimSpace(Drop(lines[1], colon + 1))),
                 paragraphs, TrimSpace(Take(lines[1], colon)))

ParseControl(data) == parseLoop(scanLines(data), << >>, << >>, << >>)

(***************************************************************************)
(* The parser on its own: a caller of ParseControl, with the text of a     *)
(* file or with the text formatParagraph makes of a paragraph              *)
(***************************************************************************)

\* The most lines of an input.
MaxLines == 4

LineChoices ==
  { << >>, << "A", ":", " ", "1" >>, << "B", ":", "2", " " >>, << "A", " ", ":", "3" >>, << "\t", "y", " " >>, << " " >>,
    << "j", "u", "n", "k" >>, << ":", "e" >>, << "D", "e", "s", "c", "r", "i", "p", "t", "i", "o", "n", ":", " ", "o", "n", "e" >>, << " ", "t", "w", "o" >>, << " ", "t", "h", "r", "e", "e" >> }

\* The text of an input: its lines with a line ending between them and, when
\* final holds, one after the last.
ControlText(in) ==
  JoinStr(in.lines, in.eol) \o (IF in.final /\ in.lines # << >> THEN in.eol ELSE << >>)

\* Line endings: newlines, with or without one after the last line, or
\* carriage return and newline after every line.
LineEndings ==
  { [eol |-> << "\n" >>, final |-> FALSE], [eol |-> << "\n" >>, final |-> TRUE],
    [eol |-> << "\r", "\n" >>, final |-> TRUE] }

\* The inputs of up to n lines.
ControlInputs(n) ==
  { [lines |-> ls, eol |-> e.eol, final |-> e.final] :
      ls \in SeqsUpTo(LineChoices, n), e \in LineEndings }

\* The most fields of a paragraph handed to formatParagraph.
MaxFields == 2

KeyChoices == { << "A" >>, << "B" >>, << "a", ":", "b" >>, << " ", "A" >>, << "A", " " >>, << "A", "\n", "B" >>, << >> }

ValueChoices == { << "1" >>, << >>, << " ", "1" >>, << "1", " " >>, << "x", " ", "y" >>, << "a", ":", " ", "b" >>, << "1", "\n", "2" >> }

\* The paragraphs of up to n fields.
ParagraphChoices(n) ==
  UNION { [ks -> ValueChoices] : ks \in { k \in SUBSET KeyChoices : Cardinality(k) <= n } }

ParseInit ==
  /\ cfg = [Feeds |-> << >>, cache |-> << >>]
  /\ status = << >>
  /\ indexes = << >>
  /\ indexesLoaded = FALSE
  /\ pc = "idle"
  /\ gor = [i \in 1..NumFeeds |-> "none"]
  /\ result = << >>
  /\ firstErr = NoErr
  /\ fsys = << >>
  /\ frame = << >>
  /\ \/ \E in \in ControlInputs(MaxLines) : ret = [NoRet EXCEPT !.args = in]
     \/ \E p \in ParagraphChoices(MaxFields) : ret = [NoRet EXCEPT !.args = [paragraph |-> p]]

parseControlCall(op, args, r) == Query(op, args, Result(r.err, r.file, << >>, FALSE))

\* ParseControl reads the text of the input.
DoParseControl ==
  /\ "lines" \in DOMAIN ret.args
  /\ parseControlCall("ParseControl", ret.args, ParseControl(ControlText(ret.args)))

\* ParseControl reads the text formatParagraph makes of a paragraph.
DoFormatThenParse ==
  /\ "paragraph" \in DOMAIN ret.args
  /\ parseControlCall("FormatThenParse", ret.args,
                      ParseControl(formatParagraph(ret.args.paragraph)))

ParseNext == DoParseControl \/ DoFormatThenParse

ParseSpec == ParseInit /\ [][ParseNext]_vars


\* The kinds of line of the grammar.
IsBlankLine(l) == l = << >>

IsContinuationLine(l) == l # << >> /\ l[1] \in { " ", "\t" }

IsFieldLine(l) == ~IsBlankLine(l) /\ ~IsContinuationLine(l)

HasColon(l) == \E i \in 1..Len(l) : l[i] = ":"

\* The key and the value a field line writes.
KeyOfLine(l) == TrimSpace(Take(l, IndexAny(l, { ":" })))

ValueOfLine(l) == TrimSpace(Drop(l, IndexAny(l, { ":" }) + 1))

\* The maximal runs of non-blank lines, as the set of their first lines, and
\* the last line of the run that starts at s.
RunStarts(ls) ==
  { i \in 1..Len(ls) : ~IsBlankLine(ls[i]) /\ (i = 1 \/ IsBlankLine(ls[i - 1])) }

RunEnd(ls, s) ==
  CHOOSE e \in s..Len(ls) :
    /\ \A i \in s..e : ~IsBlankLine(ls[i])
    /\ e = Len(ls) \/ IsBlankLine(ls[e + 1])

\* The first line of the n-th run.
NthRunStart(ls, n) ==
  CHOOSE s \in RunStarts(ls) : Cardinality({ t \in RunStarts(ls) : t <= s }) = n

\* The continuation lines from line i up to the next field line or to the
\* line e, each stripped of its leading spaces and tabs and put after a
\* newline.
RECURSIVE Continuations(_, _, _)
Continuations(ls, i, e) ==
  IF i > e \/ ~IsContinuationLine(ls[i]) THEN << >>
  ELSE << "\n" >> \o TrimLeft(ls[i], { " ", "\t" }) \o Continuations(ls, i + 1, e)

\* The value of key k in the run s..e: that of the last field line with this
\* key, with the continuation lines that follow it.
LastFieldLine(ls, s, e, k) ==
  CHOOSE f \in s..e :
    /\ IsFieldLine(ls[f]) /\ KeyOfLine(ls[f]) = k
    /\ \A g \in (f + 1)..e : ~(IsFieldLine(ls[g]) /\ KeyOfLine(ls[g]) = k)

ValueWithContinuations(ls, f, e) == ValueOfLine(ls[f]) \o Continuations(ls, f + 1, e)

ExpectedValue(ls, s, e, k) == ValueWithContinuations(ls, LastFieldLine(ls, s, e, k), e)

ParseAccepted == pc = "returned" /\ ret.op = "ParseControl" /\ ret.err = NoErr

\* C17: in an accepted input, a line that begins with space or tab is
\* appended, stripped of its leading whitespace and after one newline, to the
\* value of the most recently seen key of its paragraph and to no other:
\* every value of the n-th paragraph is the value of the last field line with
\* its key in the n-th run of lines, followed by the continuation lines that
\* follow that field line.
C17_ContinuationAppended ==
  ParseAccepted =>
     \A n \in 1..Len(ret.val.Paragraphs) :
        \A k \in DOMAIN ret.val.Paragraphs[n] :
           /\ n <= Cardinality(RunStarts(ret.args.lines))
           /\ ret.val.Paragraphs[n][k] =
                ExpectedValue(ret.args.lines, NthRunStart(ret.args.lines, n),
                              RunEnd(ret.args.lines, NthRunStart(ret.args.lines, n)), k)

\* "Description: one", " two", " three" has given one, two, three joined by
\* newlines.
C17_Witness ==
  /\ ParseAccepted
  /\ ret.args.lines = << << "D", "e", "s", "c", "r", "i", "p", "t", "i", "o", "n", ":", " ", "o", "n", "e" >>, << " ", "t", "w", "o" >>, << " ", "t", "h", "r", "e", "e" >> >>
  /\ Len(ret.val.Paragraphs) = 1
  /\ ret.val.Paragraphs[1][<< "D", "e", "s", "c", "r", "i", "p", "t", "i", "o", "n" >>] =
       << "o", "n", "e", "\n", "t", "w", "o", "\n", "t", "h", "r", "e", "e" >>

\* C18: in the result of an accepted input no paragraph is without fields,
\* and there is one paragraph per maximal run of non-blank lines, in the
\* order of the runs, with the keys of the field lines of its run.
C18_OneParagraphPerRun ==
  ParseAccepted =>
     /\ Len(ret.val.Paragraphs) = Cardinality(RunStarts(ret.args.lines))
     /\ \A n \in 1..Len(ret.val.Paragraphs) :
          /\ DOMAIN ret.val.Paragraphs[n] # { }
          /\ DOMAIN ret.val.Paragraphs[n] =
               { KeyOfLine(ret.args.lines[i]) :
                   i \in { j \in NthRunStart(ret.args.lines, n)..
                                  RunEnd(ret.args.lines, NthRunStart(ret.args.lines, n)) :
                             IsFieldLine(ret.args.lines[j]) } }

\* An input with two blank lines in a row between its field lines has
\* given two paragraphs.
C18_Witness ==
  /\ ParseAccepted
  /\ \E i \in 2..(Len(ret.args.lines) - 1) :
        IsBlankLine(ret.args.lines[i]) /\ IsBlankLine(ret.args.lines[i + 1])
  /\ Len(ret.val.Paragraphs) = 2
  /\ DOMAIN ret.val.Paragraphs[1] = { << "A" >> }
  /\ DOMAIN ret.val.Paragraphs[2] = { << "B" >> }

\* A continuation line with no field line before it in its paragraph, or a
\* line that is neither blank nor a continuation and has no colon.
Malformed(ls) ==
  \/ \E i \in 1..Len(ls) :
        /\ IsContinuationLine(ls[i])
        /\ \A s \in RunStarts(ls) :
              (s <= i /\ i <= RunEnd(ls, s)) => \A f \in s..i : ~IsFieldLine(ls[f])
  \/ \E i \in 1..Len(ls) : IsFieldLine(ls[i]) /\ ~HasColon(ls[i])

\* C19: ParseControl fails, and returns no control file, exactly when the
\* input has a continuation line with no field line before it in the same
\* paragraph, or a non-blank line that is no continuation and has no colon.
C19_FailsExactlyWhenMalformed ==
  (pc = "returned" /\ ret.op = "ParseControl") =>
     /\ (ret.err # NoErr) = Malformed(ret.args.lines)
     /\ (ret.err # NoErr) = ret.val.nil

SingleLine(v) == \A i \in 1..Len(v) : v[i] # "\n"

FormatThenParseReturned == pc = "returned" /\ ret.op = "FormatThenParse"

\* The text of the paragraph has parsed into that paragraph alone.
RoundTripHolds ==
  /\ ret.err = NoErr
  /\ ~ret.val.nil
  /\ Len(ret.val.Paragraphs) = 1
  /\ ret.val.Paragraphs[1] = ret.args.paragraph

\* C20 as stated: for any paragraph whose values are single-line, parsing
\* the text formatParagraph makes of it yields one paragraph with an equal
\* field map.
C20_RoundTripAnyParagraph ==
  (/\ FormatThenParseReturned
   /\ \A k \in DOMAIN ret.args.paragraph : SingleLine(ret.args.paragraph[k])) =>
     RoundTripHolds

\* A string without white space at either end.
IsTrimmed(v) ==
  v = << >> \/ (v[1] \notin { " ", "\t", "\n", "\r", "\f" }
                /\ v[Len(v)] \notin { " ", "\t", "\n", "\r", "\f" })

\* A key the parser can give back: single-line, without a colon and without
\* white space at either end.
IsPlainKey(k) == SingleLine(k) /\ IsTrimmed(k) /\ \A i \in 1..Len(k) : k[i] # ":"

\* C20: for any paragraph with at least one field, whose keys are
\* single-line, without a colon and without white space at either end, and
\* whose values are single-line and without white space at either end,
\* parsing the text formatParagraph makes of it yields one paragraph with an
\* equal field map.
C20_RoundTripPlainParagraph ==
  (/\ FormatThenParseReturned
   /\ DOMAIN ret.args.paragraph # { }
   /\ \A k \in DOMAIN ret.args.paragraph :
        /\ IsPlainKey(k)
        /\ SingleLine(ret.args.paragraph[k]) /\ IsTrimmed(ret.args.paragraph[k])) =>
     RoundTripHolds

\* A paragraph with two fields, one value with a space inside, has come back
\* from its text.
C20_Witness ==
  /\ FormatThenParseReturned
  /\ ret.args.paragraph = (<< "A" >> :> << "1" >>) @@ (<< "B" >> :> << "x", " ", "y" >>)
  /\ RoundTripHolds

(***************************************************************************)
(* internal/config: Load, StatusPath                                       *)
(***************************************************************************)

\* The file system a process sees: files maps the absolute path of each
\* regular file to its lines, cwd is the working directory of the process.
\* A relative path names the file at cwd/path.
absolutePath(fs, p) ==
  IF p # << >> /\ p[1] = "/" THEN filepathClean(p)
  ELSE filepathClean(fs.cwd \o << "/" >> \o p)

isRegular(fs, p) == p # << >> /\ absolutePath(fs, p) \in DOMAIN fs.files

\* The paths below the directory q (q is absolute and clean).
dirPrefix(q) == IF q = << "/" >> THEN q ELSE q \o << "/" >>

isDirectory(fs, p) ==
  /\ p # << >>
  /\ \/ absolutePath(fs, p) = << "/" >>
     \/ \E f \in DOMAIN fs.files : HasPrefix(f, dirPrefix(absolutePath(fs, p)))

\* Readdirnames of a directory, sorted.
firstComponent(rest) ==
  IF IndexAny(rest, { "/" }) < 0 THEN rest ELSE Take(rest, IndexAny(rest, { "/" }))

namesBelow(files, prefix) ==
  { firstComponent(Drop(f, Len(prefix))) : f \in { g \in files : HasPrefix(g, prefix) } }

readDirNames(fs, dir) == SortStrings(namesBelow(DOMAIN fs.files, dirPrefix(absolutePath(fs, dir))))

\* filepath.Glob on a Unix system. [matches, err].
hasMeta(path) == \E i \in 1..Len(path) : path[i] \in { "*", "?", "[", "\\" }

\* filepath.Split: the directory with its final slash, and the file.
splitDir(path) == Take(path, LastIndexByte(path, "/") + 1)

splitFile(path) == Drop(path, LastIndexByte(path, "/") + 1)

cleanGlobPath(dir) ==
  IF dir = << >> THEN << "." >>
  ELSE IF dir = << "/" >> THEN dir
  ELSE Take(dir, Len(dir) - 1)

\* glob: the names of dir that match pattern, joined to dir, after matches.
RECURSIVE globNames(_, _, _, _)
globNames(dir, pattern, names, matches) ==
  IF names = << >> THEN matches
  ELSE globNames(dir, pattern, Tail(names),
                 IF isMatch(pathMatch(pattern, names[1]))
                 THEN Append(matches, filepathJoin(dir, names[1]))
                 ELSE matches)

globDir(fs, dir, pattern, matches) ==
  IF ~isDirectory(fs, dir) THEN matches
  ELSE globNames(dir, pattern, readDirNames(fs, dir), matches)

RECURSIVE globDirs(_, _, _, _)
globDirs(fs, dirs, pattern, matches) ==
  IF dirs = << >> THEN matches
  ELSE globDirs(fs, Tail(dirs), pattern, globDir(fs, dirs[1], pattern, matches))

RECURSIVE Glob(_, _)
RECURSIVE globMeta(_, _, _)

globMeta(fs, pattern, dir) ==
  IF ~hasMeta(dir) THEN [matches |-> globDir(fs, dir, splitFile(pattern), << >>), err |-> FALSE]
  ELSE IF dir = pattern THEN [matches |-> << >>, err |-> TRUE]
  ELSE [matches |-> globDirs(fs, Glob(fs, dir).matches, splitFile(pattern), << >>),
        err |-> FALSE]

Glob(fs, pattern) ==
  IF ~patternWellFormed(pattern) THEN [matches |-> << >>, err |-> TRUE]
  ELSE IF ~hasMeta(pattern)
  THEN [matches |-> IF isRegular(fs, pattern) \/ isDirectory(fs, pattern)
                    THEN << pattern >> ELSE << >>,
        err |-> FALSE]
  ELSE globMeta(fs, pattern, cleanGlobPath(splitDir(pattern)))

\* fields: the tokens of a line; a double quote starts and ends a stretch in
\* which spaces and tabs belong to the token.
RECURSIVE fieldsLoop(_, _, _, _)
fieldsLoop(line, current, inQuote, tokens) ==
  IF line = << >> THEN (IF current # << >> THEN Append(tokens, current) ELSE tokens)
  ELSE IF line[1] = "\"" THEN fieldsLoop(Tail(line), current, ~inQuote, tokens)
  ELSE IF line[1] \in { " ", "\t" }
  THEN IF inQuote THEN fieldsLoop(Tail(line), Append(current, line[1]), inQuote, tokens)
       ELSE IF current # << >> THEN fieldsLoop(Tail(line), << >>, inQuote, Append(tokens, current))
       ELSE fieldsLoop(Tail(line), current, inQuote, tokens)
  ELSE fieldsLoop(Tail(line), Append(current, line[1]), inQuote, tokens)

fields(line) == fieldsLoop(line, << >>, FALSE, << >>)

\* Config: Options is a map, the other fields are slices.
EmptyConfig ==
  [Options |-> << >>, Feeds |-> << >>, Destinations |-> << >>, Includes |-> << >>,
   Architectures |-> << >>]

setOption(c, key, value) == [c EXCEPT !.Options = setField(c.Options, key, value)]

\* The outcome of one line of a configuration file: the configuration, the
\* error, and the files an include directive matched.
lineDone(c) == [cfg |-> c, err |-> NoErr, matches |-> << >>]

lineFailed(c, kind, p) == [cfg |-> c, err |-> Err(kind, p), matches |-> << >>]

lineInclude(c, pattern, g, p) ==
  IF g.err THEN lineFailed([c EXCEPT !.Includes = Append(@, pattern)], "invalidGlob", p)
  ELSE [cfg |-> [c EXCEPT !.Includes = Append(@, pattern)], err |-> NoErr,
        matches |-> g.matches]

lineArch(c, tokens, prio, p) ==
  IF Len(tokens) >= 3 /\ ~prio.ok THEN lineFailed(c, "invalidPriority", p)
  ELSE lineDone([c EXCEPT !.Architectures =
                   Append(@, [Name |-> tokens[2],
                              Priority |-> IF Len(tokens) >= 3 THEN prio.val ELSE 0])])

kOption == << "o", "p", "t", "i", "o", "n" >>
kDest == << "d", "e", "s", "t" >>
kArch == << "a", "r", "c", "h" >>
kInclude == << "i", "n", "c", "l", "u", "d", "e" >>
kSrc == << "s", "r", "c" >>
kSrcGz == << "s", "r", "c", "/", "g", "z" >>
kSrcSig == << "s", "r", "c", "/", "s", "i", "g" >>

\* The default case of the switch: an unknown directive is kept as an option.
lineDefault(c, tokens, p) ==
  IF Len(tokens) >= 2 THEN lineDone(setOption(c, tokens[1], JoinStr(Drop(tokens, 1), << " " >>)))
  ELSE IF IndexAny(tokens[1], { "=" }) >= 0
  THEN lineDone(setOption(c, TrimSpace(Take(tokens[1], IndexAny(tokens[1], { "=" }))),
                          TrimSpace(Drop(tokens[1], IndexAny(tokens[1], { "=" }) + 1))))
  ELSE lineFailed(c, "unsupportedDirective", p)

\* The switch on tokens[0].
loadDirective(fs, c, tokens, p) ==
  IF tokens[1] = kOption
  THEN IF Len(tokens) < 3 THEN lineFailed(c, "optionExpects", p)
       ELSE lineDone(setOption(c, tokens[2], JoinStr(Drop(tokens, 2), << " " >>)))
  ELSE IF tokens[1] = kDest
  THEN IF Len(tokens) < 3 THEN lineFailed(c, "destExpects", p)
       ELSE lineDone([c EXCEPT !.Destinations = Append(@, [Name |-> tokens[2], Path |-> tokens[3]])])
  ELSE IF tokens[1] \in { kSrc, kSrcGz, kSrcSig }
  THEN IF Len(tokens) < 3 THEN lineFailed(c, "srcExpects", p)
       ELSE lineDone([c EXCEPT !.Feeds =
                        Append(@, [Name |-> tokens[2], URI |-> tokens[3], Type |-> tokens[1]])])
  ELSE IF tokens[1] = kArch
  THEN IF Len(tokens) < 2 THEN lineFailed(c, "archExpects", p)
       ELSE lineArch(c, tokens, IF Len(tokens) >= 3 THEN Atoi(tokens[3]) ELSE Atoi(<< >>), p)
  ELSE IF tokens[1] = kInclude
  THEN IF Len(tokens) < 2 THEN lineFailed(c, "includeExpects", p)
       ELSE lineInclude(c, tokens[2], Glob(fs, tokens[2]), p)
  ELSE lineDefault(c, tokens, p)

\* One turn of the scanner loop on the line raw, already trimmed.
loadTokens(fs, c, tokens, p) ==
  IF tokens = << >> THEN lineDone(c) ELSE loadDirective(fs, c, tokens, p)

loadLine(fs, c, raw, p) ==
  IF raw = << >> \/ HasPrefix(raw, << "#" >>) \/ HasPrefix(raw, << "/", "/" >>)
  THEN lineDone(c)
  ELSE loadTokens(fs, c, fields(raw), p)

\* Config.FindOption.
FindOption(c, key, fallback) ==
  IF key \in DOMAIN c.Options THEN c.Options[key] ELSE fallback

kRoot == << "r", "o", "o", "t" >>
kStatusOption == << "s", "t", "a", "t", "u", "s" >>
kStatusSuffix ==
  << "u", "s", "r", "/", "l", "i", "b", "/", "o", "p", "k", "g", "/", "s", "t", "a", "t", "u", "s" >>

\* Config.StatusPath: [path, err].
rootDestinations(c) == SelectSeq(c.Destinations, LAMBDA d : d.Name = kRoot)

statusPathOfRoot(roots) ==
  IF roots # << >> THEN [path |-> filepathJoin(roots[1].Path, kStatusSuffix), err |-> NoErr]
  ELSE [path |-> << >>, err |-> Err("statusPathNotConfigured", << >>)]

StatusPath(c) ==
  IF FindOption(c, kStatusOption, << >>) # << >>
  THEN [path |-> FindOption(c, kStatusOption, << >>), err |-> NoErr]
  ELSE statusPathOfRoot(rootDestinations(c))

(***************************************************************************)
(* config.Load and Config.StatusPath on bounded inputs                     *)
(***************************************************************************)

\* The files of the configuration directory /d: opkg.conf and b.conf hold a
\* few include lines followed by a block of other lines, feeds/base.conf
\* declares the feed base.
MaxIncludes == 1

IncludeChoices ==
  { << "i", "n", "c", "l", "u", "d", "e", " ", "f", "e", "e", "d", "s", "/", "*", ".", "c", "o", "n", "f" >>, << "i", "n", "c", "l", "u", "d", "e", " ", "/", "d", "/", "*", ".", "c", "o", "n", "f" >>, << "i", "n", "c", "l", "u", "d", "e", " ", "o", "p", "k", "g", ".", "c", "o", "n", "f" >>,
    << "i", "n", "c", "l", "u", "d", "e", " ", "b", ".", "c", "o", "n", "f" >> }

DirectiveBlocks ==
  { << >>,
    << << "s", "r", "c", " ", "f", " ", "u" >> >>,
    << << "#", " ", "c" >>, << "o", "p", "t", "i", "o", "n", " ", "x", " ", "1", " ", "2" >>, << "d", "e", "s", "t", " ", "r", "o", "o", "t", " ", "/" >>, << "a", "r", "c", "h", " ", "a", "l", "l", " ", "1", "0" >>, << "k", "=", "v" >> >>,
    << << "b", "o", "g", "u", "s" >> >> }

ConfigContents(n) ==
  { is \o b : is \in UNION { [1..k -> IncludeChoices] : k \in 0..n }, b \in DirectiveBlocks }

kBaseFeedLine == << "s", "r", "c", "/", "g", "z", " ", "b", "a", "s", "e", " ", "h", "t", "t", "p", ":", "/", "/", "e", "x", "a", "m", "p", "l", "e", ".", "i", "n", "v", "a", "l", "i", "d", "/", "b", "a", "s", "e" >>

ConfigFiles(main, other) ==
  (<< "/", "d", "/", "o", "p", "k", "g", ".", "c", "o", "n", "f" >> :> main) @@ (<< "/", "d", "/", "b", ".", "c", "o", "n", "f" >> :> other)
    @@ (<< "/", "d", "/", "f", "e", "e", "d", "s", "/", "b", "a", "s", "e", ".", "c", "o", "n", "f" >> :> << kBaseFeedLine >>)

WorkingDirs == { << "/", "d" >>, << "/" >> }

LoadPaths == { << "/", "d", "/", "o", "p", "k", "g", ".", "c", "o", "n", "f" >>, << "o", "p", "k", "g", ".", "c", "o", "n", "f" >> }

\* The configurations StatusPath is called on.
kStatusFile == << "s", "t", "a", "t", "u", "s", "_", "f", "i", "l", "e" >>
kStatusDir == << "s", "t", "a", "t", "u", "s", "_", "d", "i", "r" >>

StatusOptionChoices ==
  { o \in [{ kStatusOption, kStatusFile, kStatusDir } -> { << "-" >>, << >>, << "/", "s", "/", "s", "t", "a", "t", "u", "s" >>, << "/", "v", "a", "r", "/", "l", "i", "b", "/", "o", "p", "k", "g", "/", "s", "t", "a", "t", "u", "s" >>, << "/", "u", "s", "r", "/", "l", "i", "b", "/", "o", "p", "k", "g" >> }] :
      /\ o[kStatusOption] \in { << "-" >>, << >>, << "/", "s", "/", "s", "t", "a", "t", "u", "s" >> }
      /\ o[kStatusFile] \in { << "-" >>, << "/", "v", "a", "r", "/", "l", "i", "b", "/", "o", "p", "k", "g", "/", "s", "t", "a", "t", "u", "s" >> }
      /\ o[kStatusDir] \in { << "-" >>, << "/", "u", "s", "r", "/", "l", "i", "b", "/", "o", "p", "k", "g" >> } }

\* The options that are set ("-" stands for an option that is not).
optionsOf(o) == [k \in { x \in DOMAIN o : o[x] # << "-" >> } |-> o[k]]

StatusDestinationChoices ==
  { << >>,
    << [Name |-> kRoot, Path |-> << "/" >>] >>,
    << [Name |-> << "r", "a", "m" >>, Path |-> << "/", "t", "m", "p" >>], [Name |-> kRoot, Path |-> << "/", "r" >>] >> }

StatusConfigs ==
  { [EmptyConfig EXCEPT !.Options = optionsOf(o), !.Destinations = d] :
      o \in StatusOptionChoices, d \in StatusDestinationChoices }

ConfigInit ==
  /\ status = << >>
  /\ indexes = << >>
  /\ indexesLoaded = FALSE
  /\ pc = "idle"
  /\ gor = [i \in 1..NumFeeds |-> "none"]
  /\ result = << >>
  /\ firstErr = NoErr
  /\ frame = << >>
  /\ \/ \E main \in ConfigContents(MaxIncludes), other \in ConfigContents(MaxIncludes),
          dir \in WorkingDirs, p \in LoadPaths :
          /\ fsys = [files |-> ConfigFiles(main, other), cwd |-> dir]
          /\ cfg = EmptyConfig
          /\ ret = [NoRet EXCEPT !.args = [path |-> p]]
     \/ \E c \in StatusConfigs :
          /\ fsys = << >>
          /\ cfg = c
          /\ ret = [NoRet EXCEPT !.args = [statusPath |-> TRUE]]

\* The innermost call of load that is running.
topCall == frame.stack[Len(frame.stack)]

setTop(call) == [frame.stack EXCEPT ![Len(frame.stack)] = call]

loadReturns(err, c) ==
  /\ pc' = "returned"
  /\ ret' = Returned("Load", ret.args, Result(err, c, << >>, FALSE))

\* Load(path): the configuration is empty, nothing is visited, and load(path)
\* is about to be called.
LoadBegin ==
  /\ pc = "idle"
  /\ "path" \in DOMAIN ret.args
  /\ pc' = "loading"
  /\ frame' = [cfg |-> EmptyConfig, visited |-> { }, opened |-> << >>, skipped |-> << >>,
               stack |-> << [p |-> << >>, lines |-> << >>, matches |-> << ret.args.path >>] >>]
  /\ UNCHANGED << cfg, status, indexes, indexesLoaded, gor, result, firstErr, ret, fsys >>

\* The calls of load that can be nested before the stack of the goroutine is
\* exhausted; Load never comes near it.
MaxLoadDepth == 8

\* A load that never takes a path for visited.
alreadyVisitedNever(visited, p) == FALSE

\* visited[p] of load: the path string, as given, is in the visited set.
alreadyVisited(visited, p) == p \in visited

\* load(p) is called with the next match: it returns at once on a visited
\* path, and otherwise marks the path and opens the file.
loadOpen(p) ==
  IF isRegular(fsys, p)
  THEN /\ frame' = [frame EXCEPT !.visited = @ \cup { p }, !.opened = Append(@, p),
                      !.stack = Append(setTop([topCall EXCEPT !.matches = Tail(@)]),
                                       [p |-> p, lines |-> fsys.files[absolutePath(fsys, p)],
                                        matches |-> << >>])]
       /\ UNCHANGED << pc, ret >>
  ELSE /\ frame' = [frame EXCEPT !.visited = @ \cup { p }, !.opened = Append(@, p)]
       /\ loadReturns(Err(IF isDirectory(fsys, p) THEN "readConfig" ELSE "openConfig", p),
                      EmptyConfig)

LoadEnter ==
  /\ pc = "loading"
  /\ topCall.matches # << >>
  /\ Len(frame.stack) < MaxLoadDepth
  /\ IF alreadyVisited(frame.visited, topCall.matches[1])
     THEN /\ frame' = [frame EXCEPT !.skipped = Append(@, topCall.matches[1]),
                         !.stack = setTop([topCall EXCEPT !.matches = Tail(@)])]
          /\ UNCHANGED << pc, ret >>
     ELSE loadOpen(topCall.matches[1])
  /\ UNCHANGED << cfg, status, indexes, indexesLoaded, gor, result, firstErr, fsys >>

\* One turn of the scanner loop of the innermost load.
loadScanned(r) ==
  IF r.err # NoErr
  THEN /\ frame' = [frame EXCEPT !.cfg = r.cfg]
       /\ loadReturns(r.err, EmptyConfig)
  ELSE /\ frame' = [frame EXCEPT !.cfg = r.cfg,
                      !.stack = setTop([topCall EXCEPT !.lines = Tail(@),
                                                       !.matches = r.matches])]
       /\ UNCHANGED << pc, ret >>

LoadScan ==
  /\ pc = "loading"
  /\ topCall.matches = << >>
  /\ topCall.lines # << >>
  /\ loadScanned(loadLine(fsys, frame.cfg, TrimSpace(topCall.lines[1]), topCall.p))
  /\ UNCHANGED << cfg, status, indexes, indexesLoaded, gor, result, firstErr, fsys >>

\* The innermost load reached the end of its file; when it is the outermost,
\* Load returns the configuration.
LoadLeave ==
  /\ pc = "loading"
  /\ topCall.matches = << >>
  /\ topCall.lines = << >>
  /\ frame' = [frame EXCEPT !.stack = SubSeq(@, 1, Len(@) - 1)]
  /\ IF Len(frame.stack) = 1 THEN loadReturns(NoErr, frame.cfg) ELSE UNCHANGED << pc, ret >>
  /\ UNCHANGED << cfg, status, indexes, indexesLoaded, gor, result, firstErr, fsys >>

statusPathCall(r) == Query("StatusPath", ret.args, Result(r.err, r.path, << >>, FALSE))

DoStatusPath ==
  /\ "statusPath" \in DOMAIN ret.args
  /\ statusPathCall(StatusPath(cfg))

ConfigNext == LoadBegin \/ LoadEnter \/ LoadScan \/ LoadLeave \/ DoStatusPath

ConfigSpec == ConfigInit /\ [][ConfigNext]_vars

\* Load is one sequential call: it takes its next step whenever it has one.
\* For the steps that open a file and read a line the condition WF_vars(A) is
\* written out, with the enabling condition of A as a state predicate.
LoadReadEnabled ==
  /\ pc = "loading"
  /\ \/ (topCall.matches # << >> /\ Len(frame.stack) < MaxLoadDepth)
     \/ (topCall.matches = << >> /\ topCall.lines # << >>)

ConfigFairSpec ==
  /\ ConfigSpec
  /\ WF_vars(LoadBegin \/ LoadLeave)
  /\ ([]<>(~LoadReadEnabled) \/ []<><<LoadEnter \/ LoadScan>>_vars)


\* Load returned for the main file /d/opkg.conf.
LoadReturned == pc = "returned" /\ ret.op = "Load"

kMainPath == << "/", "d", "/", "o", "p", "k", "g", ".", "c", "o", "n", "f" >>

kBaseFeed == [Name |-> << "b", "a", "s", "e" >>, URI |-> << "h", "t", "t", "p", ":", "/", "/", "e", "x", "a", "m", "p", "l", "e", ".", "i", "n", "v", "a", "l", "i", "d", "/", "b", "a", "s", "e" >>, Type |-> kSrcGz]

\* C21: when the main file holds the one line "include feeds/*.conf" and
\* feeds/base.conf beside it declares the feed base, Load of the main file
\* gives exactly that one feed, whatever the working directory of the process.
C21_IncludeBesideIncludingFile ==
  (/\ LoadReturned
   /\ ret.args.path = kMainPath
   /\ fsys.files[kMainPath] = << << "i", "n", "c", "l", "u", "d", "e", " ", "f", "e", "e", "d", "s", "/", "*", ".", "c", "o", "n", "f" >> >>)
     => /\ ret.err = NoErr
        /\ ret.val.Feeds = << kBaseFeed >>

NoDuplicates(s) == \A i, j \in 1..Len(s) : s[i] = s[j] => i = j

\* An include directive that names a file whose load is still running.
CycleSkipped ==
  /\ LoadReturned
  /\ \E i \in 1..Len(frame.skipped) : frame.skipped[i] \in Range(frame.opened)

\* C22: a Load that has started returns, also when the files include each
\* other in a cycle; no path string is opened twice, a path that was already
\* loaded is skipped, and the only errors Load returns are those of a line it
\* cannot read and of a file that does not exist.
C22_LoadTerminatesOnCycles ==
  /\ (pc = "loading") ~> LoadReturned
  /\ [](pc \in { "loading", "returned" } /\ "path" \in DOMAIN ret.args
          => /\ NoDuplicates(frame.opened)
             /\ Range(frame.opened) = frame.visited
             /\ \A i \in 1..Len(frame.skipped) : frame.skipped[i] \in frame.visited)
  /\ [](LoadReturned /\ ret.err # NoErr
          => \/ ret.err.kind = "unsupportedDirective"
             \/ /\ ret.err.kind = "openConfig"
                /\ ~isRegular(fsys, ret.err.arg))

\* Load returned without error from files that include each other: the main
\* file includes b.conf, b.conf includes the main file, and the second
\* include was skipped.
C22_Witness ==
  /\ CycleSkipped
  /\ ret.err = NoErr
  /\ << "i", "n", "c", "l", "u", "d", "e", " ", "b", ".", "c", "o", "n", "f" >> \in Range(fsys.files[kMainPath])
  /\ << "i", "n", "c", "l", "u", "d", "e", " ", "o", "p", "k", "g", ".", "c", "o", "n", "f" >> \in Range(fsys.files[<< "/", "d", "/", "b", ".", "c", "o", "n", "f" >>])
  /\ << "o", "p", "k", "g", ".", "c", "o", "n", "f" >> \in Range(frame.skipped)

\* The option key has a value in the configuration.
OptionSet(c, key) == FindOption(c, key, << >>) # << >>

\* The status path the precedence option status, status_file, status_dir,
\* destination root gives.
ExpectedStatusPath(c) ==
  IF OptionSet(c, kStatusOption) THEN [path |-> c.Options[kStatusOption], failed |-> FALSE]
  ELSE IF OptionSet(c, kStatusFile) THEN [path |-> c.Options[kStatusFile], failed |-> FALSE]
  ELSE IF OptionSet(c, kStatusDir)
  THEN [path |-> filepathJoin(c.Options[kStatusDir], kStatusOption), failed |-> FALSE]
  ELSE IF rootDestinations(c) # << >>
  THEN [path |-> filepathJoin(rootDestinations(c)[1].Path, kStatusSuffix), failed |-> FALSE]
  ELSE [path |-> << >>, failed |-> TRUE]

\* C23: StatusPath returns the option status, else the option status_file,
\* else status_dir joined with "status", else the root destination joined
\* with usr/lib/opkg/status, and fails only when none of them is configured.
C23_StatusPathPrecedence ==
  (pc = "returned" /\ ret.op = "StatusPath")
     => /\ (ret.err # NoErr) = ExpectedStatusPath(cfg).failed
        /\ ret.err = NoErr => ret.val = ExpectedStatusPath(cfg).path

(***************************************************************************)
(* repo.Update step by step: goroutines, transport, cache files            *)
(***************************************************************************)

\* The feeds of the configuration and the cache directory.
FetchFeeds ==
  << [Name |-> << "b", "a", "s", "e" >>, URI |-> << "h", "t", "t", "p", ":", "/", "/", "h", "/", "b", "/" >>],
     [Name |-> << "e", "x", "t", "r", "a" >>, URI |-> << "h", "t", "t", "p", ":", "/", "/", "h", "/", "x" >>] >>

FetchCacheDir == << "/", "c" >>

\* The text of the index a feed serves, and the text its cache file holds
\* from an earlier Update.
IndexText(i) == IF i = 1 THEN << "P", "a", "c", "k", "a", "g", "e", ":", " ", "A", "\n", "V", "e", "r", "s", "i", "o", "n", ":", " ", "2", "\n" >> ELSE << "P", "a", "c", "k", "a", "g", "e", ":", " ", "B", "\n" >>

OldIndexText(i) == IF i = 1 THEN << "P", "a", "c", "k", "a", "g", "e", ":", " ", "A", "\n", "V", "e", "r", "s", "i", "o", "n", ":", " ", "1", "\n" >> ELSE << "P", "a", "c", "k", "a", "g", "e", ":", " ", "C", "\n" >>

\* A gzip file, reduced to what fetchFeed depends on: the magic bytes 1F 8B,
\* the method byte of the header (08 in a readable header), the payload, and
\* the trailer with checksum and length (missing in a truncated stream).
kGzipMagic == << "1f", "8b" >>

gzipOf(text) == kGzipMagic \o << "08" >> \o text \o << "crc" >>

\* gzip.NewReader and io.ReadAll: [headerOk, readOk, data].
gunzip(data) ==
  IF Len(data) < 3 \/ data[3] # "08" THEN [headerOk |-> FALSE, readOk |-> FALSE, data |-> << >>]
  ELSE IF data[Len(data)] # "crc" THEN [headerOk |-> TRUE, readOk |-> FALSE, data |-> << >>]
  ELSE [headerOk |-> TRUE, readOk |-> TRUE, data |-> SubSeq(data, 4, Len(data) - 1)]

\* What the transport answers to a GetBytes call.
netFailure == [ok |-> FALSE, body |-> << >>]

bodyOf(b) == [ok |-> TRUE, body |-> b]

GzResponses(i) ==
  { netFailure, bodyOf(gzipOf(IndexText(i))), bodyOf(IndexText(i)),
    bodyOf(kGzipMagic \o << "00" >>), bodyOf(kGzipMagic \o << "08" >> \o IndexText(i)),
    bodyOf(<< "j", "u", "n", "k" >>) }

PlainResponses(i) == { netFailure, bodyOf(IndexText(i)), bodyOf(gzipOf(IndexText(i))) }

\* The environment of the fetch of one feed: the answers to the two URLs
\* (the second is only asked for after the first failed) and whether the
\* write of the cache file succeeds.
FeedEnvs(i) ==
  { [gz |-> g, plain |-> p, writeOk |-> w] :
      g \in GzResponses(i), p \in PlainResponses(i), w \in BOOLEAN }

ObservedFeedEnvs(i) == { e \in FeedEnvs(i) : e.gz.ok => e.plain = netFailure }

\* The URLs fetchFeed tries, in order, but the plain one first.
feedURLsPlainFirst(uri) ==
  << TrimSuffix(uri, << "/" >>) \o << "/", "P", "a", "c", "k", "a", "g", "e", "s" >>, TrimSuffix(uri, << "/" >>) \o << "/", "P", "a", "c", "k", "a", "g", "e", "s", ".", "g", "z" >> >>

\* The URLs fetchFeed tries, in order.
feedURLs(uri) ==
  << TrimSuffix(uri, << "/" >>) \o << "/", "P", "a", "c", "k", "a", "g", "e", "s", ".", "g", "z" >>, TrimSuffix(uri, << "/" >>) \o << "/", "P", "a", "c", "k", "a", "g", "e", "s" >> >>

cachePath(cacheDir, feed) == filepathJoin(cacheDir, feed.Name \o << ".", "P", "a", "c", "k", "a", "g", "e", "s" >>)

\* The index fetchFeed builds from the text of a feed.
indexOfText(feed, text) ==
  [Feed |-> feed, Packages |-> indexPackages(ParseControl(text).file.Paragraphs, feed, << >>)]

\* A goroutine of Update: its position, the number of the URL it is at, the
\* URLs it has requested, the body it received, the data after decompression,
\* the index and the error of fetchFeed.
NoGoroutine ==
  [pc |-> "none", url |-> 1, reqs |-> << >>, body |-> << >>, data |-> << >>,
   index |-> NoIndex, err |-> NoErr]

NumFetchFeeds == Len(FetchFeeds)

FetchInit ==
  /\ cfg = [Feeds |-> FetchFeeds, cache |-> FetchCacheDir]
  /\ status = << >>
  /\ indexesLoaded \in BOOLEAN
  /\ indexes = IF indexesLoaded
               THEN [i \in 1..NumFetchFeeds |-> indexOfText(FetchFeeds[i], OldIndexText(i))]
               ELSE << >>
  /\ fsys = IF indexesLoaded
            THEN [p \in { cachePath(FetchCacheDir, FetchFeeds[i]) : i \in 1..NumFetchFeeds } |->
                    OldIndexText(CHOOSE i \in 1..NumFetchFeeds :
                                   cachePath(FetchCacheDir, FetchFeeds[i]) = p)]
            ELSE << >>
  /\ pc = "idle"
  /\ gor = [i \in 1..NumFetchFeeds |-> NoGoroutine]
  /\ result = << >>
  /\ firstErr = NoErr
  /\ frame = << >>
  /\ \E e1 \in ObservedFeedEnvs(1), e2 \in ObservedFeedEnvs(2), b \in BOOLEAN :
        ret = [NoRet EXCEPT !.args = [envs |-> << e1, e2 >>, barrier |-> b]]

\* Update is called: the loop over the feeds is about to start.
UpdateCall ==
  /\ pc = "idle"
  /\ pc' = "spawning"
  /\ frame' = [next |-> 1]
  /\ result' = << >>
  /\ firstErr' = NoErr
  /\ UNCHANGED << cfg, status, indexes, indexesLoaded, gor, ret, fsys >>

\* An Update that calls the function of a feed instead of starting it with a
\* go statement: the loop goes on when the function has returned.
spawnWaits(g) == g.pc = "done"

\* The go statement returns at once, whatever the goroutine g it started does.
spawnReturns(g) == TRUE

\* One turn of the loop: wg.Add(1) and the go statement for the next feed.
\* The goroutine runs fetchFeed, which returns at once on an empty URI.
UpdateSpawn ==
  /\ pc = "spawning"
  /\ frame.next <= NumFetchFeeds
  /\ frame.next > 1 => spawnReturns(gor[frame.next - 1])
  /\ gor' = [gor EXCEPT ![frame.next] =
               IF cfg.Feeds[frame.next].URI = << >>
               THEN [@ EXCEPT !.pc = "finish", !.err = Err("emptyURI", cfg.Feeds[frame.next].Name)]
               ELSE [@ EXCEPT !.pc = "call"]]
  /\ frame' = [frame EXCEPT !.next = @ + 1]
  /\ UNCHANGED << cfg, status, indexes, indexesLoaded, pc, result, firstErr, ret, fsys >>

\* The goroutine of feed i calls GetBytes on its next URL.
FetchCall(i) ==
  /\ gor[i].pc = "call"
  /\ gor' = [gor EXCEPT ![i] = [@ EXCEPT !.pc = "inflight",
                                         !.reqs = Append(@, feedURLs(cfg.Feeds[i].URI)[gor[i].url])]]
  /\ UNCHANGED << cfg, status, indexes, indexesLoaded, pc, result, firstErr, ret, fsys, frame >>

\* A transport with a barrier holds the first call of every feed until the
\* first calls of all feeds have begun.
transportAnswers(i) ==
  (ret.args.barrier /\ gor[i].url = 1) => \A j \in 1..NumFetchFeeds : gor[j].reqs # << >>

responseTo(i) == IF gor[i].url = 1 THEN ret.args.envs[i].gz ELSE ret.args.envs[i].plain

\* GetBytes returns in the goroutine of feed i: with a body the loop over the
\* URLs ends, after a failure the next URL is tried, after the last failure
\* fetchFeed returns the error.
FetchAnswer(i) ==
  /\ gor[i].pc = "inflight"
  /\ transportAnswers(i)
  /\ gor' = [gor EXCEPT ![i] =
               IF responseTo(i).ok THEN [@ EXCEPT !.pc = "decode", !.body = responseTo(i).body]
               ELSE IF gor[i].url = 1 THEN [@ EXCEPT !.pc = "call", !.url = 2]
               ELSE [@ EXCEPT !.pc = "finish", !.err = Err("fetch", cfg.Feeds[i].Name)]]
  /\ UNCHANGED << cfg, status, indexes, indexesLoaded, pc, result, firstErr, ret, fsys, frame >>

\* fetchFeed from the received body to the cache write: decompression when
\* the body begins with 1F 8B, ParseControl, the index.
decoded(g, feed, cacheDir, gz, cf) ==
  IF HasPrefix(g.body, kGzipMagic) /\ ~gz.headerOk
  THEN [g EXCEPT !.pc = "finish", !.err = Err("decompress", feed.Name)]
  ELSE IF HasPrefix(g.body, kGzipMagic) /\ ~gz.readOk
  THEN [g EXCEPT !.pc = "finish", !.err = Err("read", feed.Name)]
  ELSE IF cf.err # NoErr
  THEN [g EXCEPT !.pc = "finish", !.err = Err("parse", feed.Name)]
  ELSE [g EXCEPT !.pc = IF cacheDir # << >> THEN "open" ELSE "finish",
                 !.data = IF HasPrefix(g.body, kGzipMagic) THEN gz.data ELSE g.body,
                 !.index = [Feed |-> feed,
                            Packages |-> indexPackages(cf.file.Paragraphs, feed, << >>)]]

decodeBody(g, feed, cacheDir, gz) ==
  decoded(g, feed, cacheDir, gz,
          ParseControl(IF HasPrefix(g.body, kGzipMagic) /\ gz.readOk THEN gz.data ELSE g.body))

FetchDecode(i) ==
  /\ gor[i].pc = "decode"
  /\ gor' = [gor EXCEPT ![i] = decodeBody(gor[i], cfg.Feeds[i], cfg.cache, gunzip(gor[i].body))]
  /\ UNCHANGED << cfg, status, indexes, indexesLoaded, pc, result, firstErr, ret, fsys, frame >>

\* os.WriteFile opens the cache file with O_CREATE and O_TRUNC: the file
\* exists and is empty.
CacheOpen(i) ==
  /\ gor[i].pc = "open"
  /\ fsys' = setField(fsys, cachePath(cfg.cache, cfg.Feeds[i]), << >>)
  /\ gor' = [gor EXCEPT ![i] = [@ EXCEPT !.pc = "write"]]
  /\ UNCHANGED << cfg, status, indexes, indexesLoaded, pc, result, firstErr, ret, frame >>

\* A cache write that leaves the file as it is.
CacheWriteNothing(i) ==
  /\ gor[i].pc = "write"
  /\ gor' = [gor EXCEPT ![i] = [@ EXCEPT !.pc = "finish"]]
  /\ UNCHANGED << cfg, status, indexes, indexesLoaded, pc, result, firstErr, ret, fsys, frame >>

\* os.WriteFile writes the data and closes the file; a write that fails (a
\* full disk) leaves the bytes written so far and fetchFeed returns the error.
CacheWrite(i) ==
  /\ gor[i].pc = "write"
  /\ IF ret.args.envs[i].writeOk
     THEN /\ fsys' = setField(fsys, cachePath(cfg.cache, cfg.Feeds[i]), gor[i].data)
          /\ gor' = [gor EXCEPT ![i] = [@ EXCEPT !.pc = "finish"]]
     ELSE /\ fsys' = setField(fsys, cachePath(cfg.cache, cfg.Feeds[i]),
                              Take(gor[i].data, Len(gor[i].data) \div 2))
          /\ gor' = [gor EXCEPT ![i] = [@ EXCEPT !.pc = "finish",
                                                 !.err = Err("cache", cfg.Feeds[i].Name)]]
  /\ UNCHANGED << cfg, status, indexes, indexesLoaded, pc, result, firstErr, ret, frame >>

\* fetchFeed has returned in the goroutine of feed i: under the mutex the
\* first error is kept or the index is appended, then wg.Done.
FeedFinish(i) ==
  /\ gor[i].pc = "finish"
  /\ firstErr' = IF gor[i].err # NoErr /\ firstErr = NoErr THEN gor[i].err ELSE firstErr
  /\ result' = IF gor[i].err # NoErr THEN result ELSE Append(result, gor[i].index)
  /\ gor' = [gor EXCEPT ![i] = [@ EXCEPT !.pc = "done"]]
  /\ UNCHANGED << cfg, status, indexes, indexesLoaded, pc, ret, fsys, frame >>

\* The loop is over and wg.Wait returns: repo.Update and then Manager.Update
\* return.
UpdateWait ==
  /\ pc = "spawning"
  /\ frame.next > NumFetchFeeds
  /\ \A i \in 1..NumFetchFeeds : gor[i].pc = "done"
  /\ indexes' = ManagerUpdate(indexes, indexesLoaded, repoUpdateReturn(result, firstErr)).indexes
  /\ indexesLoaded' = ManagerUpdate(indexes, indexesLoaded, repoUpdateReturn(result, firstErr)).loaded
  /\ ret' = Returned("Update", ret.args, Result(repoUpdateReturn(result, firstErr).err, << >>, << >>, FALSE))
  /\ pc' = "returned"
  /\ UNCHANGED << cfg, status, gor, result, firstErr, fsys, frame >>

GoroutineStep(i) ==
  FetchCall(i) \/ FetchAnswer(i) \/ FetchDecode(i) \/ CacheOpen(i) \/ CacheWrite(i) \/ FeedFinish(i)

FetchNext ==
  \/ UpdateCall
  \/ UpdateSpawn
  \/ \E i \in 1..NumFetchFeeds : GoroutineStep(i)
  \/ UpdateWait

FetchSpec == FetchInit /\ [][FetchNext]_vars

\* The scheduler of Go runs every goroutine that can take a step, the
\* goroutine of the caller included, and the transport answers every call it
\* does not hold: weak fairness of the steps of the caller and of each
\* goroutine. For the steps that decode the body and write the cache file the
\* condition WF_vars(A) is written out, with the enabling condition of A as
\* a state predicate.
CallerStep == UpdateCall \/ UpdateSpawn \/ UpdateWait

TransferStep(i) == FetchCall(i) \/ FetchAnswer(i) \/ FeedFinish(i)

StoreStep(i) == FetchDecode(i) \/ CacheOpen(i) \/ CacheWrite(i)

StoreEnabled(i) == gor[i].pc \in { "decode", "open", "write" }

FetchFairSpec ==
  /\ FetchSpec
  /\ WF_vars(CallerStep)
  /\ \A i \in 1..NumFetchFeeds : WF_vars(TransferStep(i))
  /\ \A i \in 1..NumFetchFeeds : []<>(~StoreEnabled(i)) \/ []<><<StoreStep(i)>>_vars


\* The complete contents the cache file of feed i can have: the text of an
\* earlier Update, or the uncompressed text this Update received.
CompleteCacheTexts(i) ==
  { OldIndexText(i) } \cup (IF gor[i].data # << >> THEN { gor[i].data } ELSE { })

\* C24: the cache file of a feed, whenever it exists, holds a complete index
\* text: a reader never finds it truncated or partly written.
C24_CacheFileNeverPartial ==
  \A i \in 1..NumFetchFeeds :
     cachePath(cfg.cache, cfg.Feeds[i]) \in DOMAIN fsys
        => fsys[cachePath(cfg.cache, cfg.Feeds[i])] \in CompleteCacheTexts(i)

\* The GetBytes calls of all feeds are in flight at once.
AllInFlight == \A i \in 1..NumFetchFeeds : gor[i].pc = "inflight" /\ gor[i].url = 1

HeldByBarrier == "barrier" \in DOMAIN ret.args /\ ret.args.barrier

\* C26: Update starts the fetch of every feed without waiting for another
\* feed's GetBytes to return: under a transport that holds each call until
\* the calls of all feeds have begun, the state with all calls in flight is
\* reached in every run, and Update returns.
C26_AllFetchesStartBeforeAnyReturns ==
  /\ (pc = "idle" /\ HeldByBarrier) ~> AllInFlight
  /\ (pc = "spawning") ~> (pc = "returned")

\* All GetBytes calls are in flight and the transport holds them.
C26_Witness == AllInFlight /\ HeldByBarrier /\ pc = "spawning"

\* fetchFeed has returned in the goroutine of feed i.
FetchReturned(i) == gor[i].pc \in { "finish", "done" }

GzURL(i) == IF i = 1 THEN << "h", "t", "t", "p", ":", "/", "/", "h", "/", "b", "/", "P", "a", "c", "k", "a", "g", "e", "s", ".", "g", "z" >> ELSE << "h", "t", "t", "p", ":", "/", "/", "h", "/", "x", "/", "P", "a", "c", "k", "a", "g", "e", "s", ".", "g", "z" >>

PlainURL(i) == IF i = 1 THEN << "h", "t", "t", "p", ":", "/", "/", "h", "/", "b", "/", "P", "a", "c", "k", "a", "g", "e", "s" >> ELSE << "h", "t", "t", "p", ":", "/", "/", "h", "/", "x", "/", "P", "a", "c", "k", "a", "g", "e", "s" >>

CacheFile(i) == IF i = 1 THEN << "/", "c", "/", "b", "a", "s", "e", ".", "P", "a", "c", "k", "a", "g", "e", "s" >> ELSE << "/", "c", "/", "e", "x", "t", "r", "a", ".", "P", "a", "c", "k", "a", "g", "e", "s" >>

\* The answer fetchFeed works on: that of the first URL unless it failed.
Received(e) == IF e.gz.ok THEN e.gz ELSE e.plain

BeginsWithMagic(b) == Len(b) >= 2 /\ b[1] = "1f" /\ b[2] = "8b"

\* A body with the magic bytes that is no readable gzip file: a header with
\* an unknown method, or a stream without its trailer.
UnreadableGzip(b) == BeginsWithMagic(b) /\ (Len(b) < 3 \/ b[3] # "08" \/ b[Len(b)] # "crc")

\* The text of a body: what is inside the gzip file, or the body itself.
Uncompressed(b) == IF BeginsWithMagic(b) THEN SubSeq(b, 4, Len(b) - 1) ELSE b

Unparsable(text) == text = << "j", "u", "n", "k" >>

FeedMustFail(e) ==
  \/ ~e.gz.ok /\ ~e.plain.ok
  \/ /\ Received(e).ok
     /\ \/ UnreadableGzip(Received(e).body)
        \/ Unparsable(Uncompressed(Received(e).body))
        \/ ~e.writeOk

\* C28: fetchFeed requests URI/Packages.gz first and URI/Packages only when
\* that request failed; it decompresses the body exactly when it begins with
\* 1F 8B; it fails exactly when both requests fail or decompression, parsing
\* or the cache write fails; after a success the cache file holds the
\* uncompressed text.
C28_FetchOrderAndCache ==
  \A i \in 1..NumFetchFeeds :
     /\ gor[i].reqs \in { << >>, << GzURL(i) >>, << GzURL(i), PlainURL(i) >> }
     /\ Len(gor[i].reqs) = 2 => ~ret.args.envs[i].gz.ok
     /\ FetchReturned(i) =>
          /\ Len(gor[i].reqs) = IF ret.args.envs[i].gz.ok THEN 1 ELSE 2
          /\ (gor[i].err # NoErr) = FeedMustFail(ret.args.envs[i])
          /\ gor[i].err = NoErr =>
               /\ gor[i].data = Uncompressed(Received(ret.args.envs[i]).body)
               /\ gor[i].data = IndexText(i)
               /\ fsys[CacheFile(i)] = IndexText(i)

\* The first request of feed 1 failed, the second was answered with a gzip
\* file, and the feed succeeded: the cache file holds the text.
C28_Witness ==
  /\ FetchReturned(1)
  /\ gor[1].err = NoErr
  /\ gor[1].reqs = << GzURL(1), PlainURL(1) >>
  /\ BeginsWithMagic(gor[1].body)
  /\ fsys[CacheFile(1)] = IndexText(1)

\* The index set of the manager before the Update: that of an earlier Update,
\* or none.
OldIndexes == [i \in 1..NumFetchFeeds |-> indexOfText(FetchFeeds[i], OldIndexText(i))]

UpdateFailed == pc = "returned" /\ ret.op = "Update" /\ ret.err # NoErr

\* C29: when Update has failed, the cache file of every feed that was fetched
\* and parsed without error holds the text of this Update (the write is not
\* undone), while the index set of the manager is the one from before.
C29_CacheWritesNotRolledBack ==
  UpdateFailed =>
     /\ indexes = IF indexesLoaded THEN OldIndexes ELSE << >>
     /\ \A i \in 1..NumFetchFeeds :
          gor[i].err = NoErr => /\ CacheFile(i) \in DOMAIN fsys
                                /\ fsys[CacheFile(i)] = IndexText(i)

\* Update failed because of feed 2; the cache file of feed 1 holds version 2
\* of package A and the index set of the manager still holds version 1.
C29_Witness ==
  /\ UpdateFailed
  /\ gor[1].err = NoErr
  /\ gor[2].err # NoErr
  /\ indexesLoaded
  /\ fsys[CacheFile(1)] = IndexText(1)
  /\ fsys[CacheFile(1)] # OldIndexText(1)
  /\ indexes[1].Packages[<< "A" >>].Version = << "1" >>

(***************************************************************************)
(* downloader.DownloadToFile: two calls on one destination                 *)
(***************************************************************************)

\* The file system of the cache directory: names maps a path to the number
\* of its file, files holds the bytes of each file. A file that was opened
\* stays reachable through its descriptor when its name is renamed or reused.
kDestination == << "/", "c", "/", "a", ".", "i", "p", "k" >>

kTemporary == kDestination \o << ".", "t", "m", "p" >>

DownloadBodies == { << "a", "a", "a", "a" >>, << "b", "b" >> }

DownloadAnswers == { netFailure } \cup { bodyOf(b) : b \in DownloadBodies }

kOldArchive == << "o", "l", "d" >>

NoDownload == [pc |-> "call", data |-> << >>, fd |-> 0, err |-> NoErr]

DownloadInit ==
  /\ cfg = [Feeds |-> << >>, cache |-> FetchCacheDir]
  /\ status = << >>
  /\ indexes = << >>
  /\ indexesLoaded = FALSE
  /\ pc = "idle"
  /\ gor = [j \in 1..2 |-> NoDownload]
  /\ result = << >>
  /\ firstErr = NoErr
  /\ frame = << >>
  /\ \E a1 \in DownloadAnswers, a2 \in DownloadAnswers :
        ret = [NoRet EXCEPT !.args = [answers |-> << a1, a2 >>]]
  /\ \/ fsys = [names |-> << >>, files |-> << >>]
     \/ fsys = [names |-> (kDestination :> 1), files |-> << kOldArchive >>]

\* GetBytes returns in call j; MkdirAll finds the directory.
DownloadGetBytes(j) ==
  /\ gor[j].pc = "call"
  /\ gor' = [gor EXCEPT ![j] =
               IF ret.args.answers[j].ok
               THEN [@ EXCEPT !.pc = "open", !.data = ret.args.answers[j].body]
               ELSE [@ EXCEPT !.pc = "done", !.err = Err("getBytes", kDestination)]]
  /\ UNCHANGED << cfg, status, indexes, indexesLoaded, pc, result, firstErr, ret, fsys, frame >>

\* os.WriteFile(tmp) opens path + ".tmp" with O_CREATE and O_TRUNC: the file
\* of that name is emptied, or a new empty file gets the name.
DownloadOpen(j) ==
  /\ gor[j].pc = "open"
  /\ IF kTemporary \in DOMAIN fsys.names
     THEN /\ fsys' = [fsys EXCEPT !.files[fsys.names[kTemporary]] = << >>]
          /\ gor' = [gor EXCEPT ![j] = [@ EXCEPT !.pc = "write", !.fd = fsys.names[kTemporary]]]
     ELSE /\ fsys' = [names |-> setField(fsys.names, kTemporary, Len(fsys.files) + 1),
                      files |-> Append(fsys.files, << >>)]
          /\ gor' = [gor EXCEPT ![j] = [@ EXCEPT !.pc = "write", !.fd = Len(fsys.files) + 1]]
  /\ UNCHANGED << cfg, status, indexes, indexesLoaded, pc, result, firstErr, ret, frame >>

\* The bytes of a file after data was written at its start.
writeAtStart(old, data) == data \o Drop(old, Len(data))

\* os.WriteFile writes the data through its descriptor and closes it.
DownloadWrite(j) ==
  /\ gor[j].pc = "write"
  /\ fsys' = [fsys EXCEPT !.files[gor[j].fd] = writeAtStart(@, gor[j].data)]
  /\ gor' = [gor EXCEPT ![j] = [@ EXCEPT !.pc = "rename"]]
  /\ UNCHANGED << cfg, status, indexes, indexesLoaded, pc, result, firstErr, ret, frame >>

\* os.Rename(tmp, path): the destination names the file the temporary name
\* named; it fails when the temporary name is gone.
DownloadRename(j) ==
  /\ gor[j].pc = "rename"
  /\ IF kTemporary \in DOMAIN fsys.names
     THEN /\ fsys' = [fsys EXCEPT !.names =
                        [n \in (DOMAIN fsys.names \ { kTemporary }) \cup { kDestination } |->
                           IF n = kDestination THEN fsys.names[kTemporary] ELSE fsys.names[n]]]
          /\ gor' = [gor EXCEPT ![j] = [@ EXCEPT !.pc = "done"]]
     ELSE /\ gor' = [gor EXCEPT ![j] = [@ EXCEPT !.pc = "done",
                                                 !.err = Err("commitDownload", kDestination)]]
          /\ UNCHANGED fsys
  /\ UNCHANGED << cfg, status, indexes, indexesLoaded, pc, result, firstErr, ret, frame >>

DownloadNext ==
  \E j \in 1..2 : DownloadGetBytes(j) \/ DownloadOpen(j) \/ DownloadWrite(j) \/ DownloadRename(j)

DownloadSpec == DownloadInit /\ [][DownloadNext]_vars

\* The bytes a complete download can leave at the destination: the archive
\* that was there before, or the body of one of the two responses.
CompleteArchives ==
  { kOldArchive } \cup { ret.args.answers[j].body : j \in { k \in 1..2 : ret.args.answers[k].ok } }

\* C25: whatever the interleaving of two DownloadToFile calls on one
\* destination, the destination, whenever it exists, holds the complete bytes
\* of one response (or the archive from before), never truncated or mixed
\* bytes.
C25_DestinationAlwaysComplete ==
  kDestination \in DOMAIN fsys.names
     => fsys.files[fsys.names[kDestination]] \in CompleteArchives

(***************************************************************************)
(* ReverseDependencies step by step: the queue loop                        *)
(***************************************************************************)

\* The longest list of patterns of a query.
MaxTargets == 2

TargetChoices == { << "A" >>, << "C" >>, << "?" >> }

\* The Depends fields of the packages A, B and C: none, a package that may be
\* the package itself, two packages, alternatives with a version.
DependsChoices == { << >>, << "A" >>, << "B", ",", " ", "C" >>, << "C", " ", "(", ">", "=", " ", "1", ")", " ", "|", " ", "A" >> }

dependsParagraph(name, depends) ==
  IF depends = << >> THEN (kPackage :> name)
  ELSE (kPackage :> name) @@ (kDepends :> depends)

ReverseFeed == [Name |-> << "b", "a", "s", "e" >>, URI |-> << "u" >>]

reverseIndexes(dA, dB, dC) ==
  << [Feed |-> ReverseFeed,
      Packages |-> indexPackages(<< dependsParagraph(nA, dA), dependsParagraph(nB, dB),
                                    dependsParagraph(nC, dC) >>, ReverseFeed, << >>)] >>

ReverseInit ==
  /\ cfg = [Feeds |-> << ReverseFeed >>, cache |-> FetchCacheDir]
  /\ status = << >>
  /\ indexesLoaded = TRUE
  /\ pc = "idle"
  /\ gor = [i \in 1..NumFeeds |-> "none"]
  /\ result = << >>
  /\ firstErr = NoErr
  /\ fsys = << >>
  /\ frame = << >>
  /\ \E dA \in DependsChoices, dB \in DependsChoices, dC \in DependsChoices :
        indexes = reverseIndexes(dA, dB, dC)
  /\ \E patterns \in SeqsUpTo(TargetChoices, MaxTargets), recursive \in BOOLEAN :
        ret = [NoRet EXCEPT !.args = [Field |-> kDepends, IncludeAll |-> TRUE,
                                      Recursive |-> recursive, Patterns |-> patterns]]

\* ReverseDependencies up to its loop: the indexes are loaded, the pattern
\* list is not empty, the universe is built and the queue holds the patterns.
ReverseCall ==
  /\ pc = "idle"
  /\ IF ensureIndexesLoaded(indexesLoaded) # NoErr \/ Len(ret.args.Patterns) = 0
     THEN /\ pc' = "returned"
          /\ ret' = Returned("ReverseDependencies", ret.args,
                             ReverseDependencies(<< >>, indexesLoaded, status, ret.args))
          /\ UNCHANGED frame
     ELSE /\ pc' = "reversing"
          /\ \E all \in All(indexes) :
                frame' = [universe |-> reverseUniverse(all, status, ret.args.IncludeAll),
                          queue |-> ret.args.Patterns, seenTargets |-> { }, matched |-> { },
                          pops |-> 0, scans |-> << >>, enqueued |-> << >>]
          /\ UNCHANGED ret
  /\ UNCHANGED << cfg, status, indexes, indexesLoaded, gor, result, firstErr, fsys >>

\* A loop that scans a target again when it is popped again.
targetSeenNever(seenTargets, target) == FALSE

\* seenTargets[target].
targetSeen(seenTargets, target) == target \in seenTargets

\* The loop after the scan r of the universe for the popped target.
reverseAfterScan(r) ==
  [frame EXCEPT !.queue = r.queue, !.matched = r.matched,
                !.seenTargets = @ \cup { frame.queue[1] },
                !.pops = @ + 1,
                !.scans = Append(@, frame.queue[1]),
                !.enqueued = @ \o SubSeq(r.queue, Len(frame.queue), Len(r.queue))]

\* One turn of the loop: a target is popped; when it was not seen before, the
\* universe is scanned for it.
ReversePop ==
  /\ pc = "reversing"
  /\ frame.queue # << >>
  /\ frame' = IF targetSeen(frame.seenTargets, frame.queue[1])
              THEN [frame EXCEPT !.queue = Tail(@), !.pops = @ + 1]
              ELSE reverseAfterScan(scanUniverse(frame.universe, frame.queue[1], ret.args.Field,
                                                 ret.args.Recursive, Tail(frame.queue),
                                                 frame.matched))
  /\ UNCHANGED << cfg, status, indexes, indexesLoaded, pc, gor, result, firstErr, ret, fsys >>

\* The queue is empty: the matched names are returned in ascending order.
ReverseReturn ==
  /\ pc = "reversing"
  /\ frame.queue = << >>
  /\ pc' = "returned"
  /\ ret' = Returned("ReverseDependencies", ret.args,
                     Result(NoErr, SortStrings(frame.matched), << >>, TRUE))
  /\ UNCHANGED << cfg, status, indexes, indexesLoaded, gor, result, firstErr, fsys, frame >>

ReverseNext == ReverseCall \/ ReversePop \/ ReverseReturn

ReverseSpec == ReverseInit /\ [][ReverseNext]_vars

\* ReverseDependencies is one sequential call: it takes its next step
\* whenever it has one. For the call and the turns of the loop the condition
\* WF_vars(A) is written out, with the enabling condition of A as a state
\* predicate.
ReverseLoopEnabled == pc = "idle" \/ (pc = "reversing" /\ frame.queue # << >>)

ReverseFairSpec ==
  /\ ReverseSpec
  /\ WF_vars(ReverseReturn)
  /\ ([]<>(~ReverseLoopEnabled) \/ []<><<ReverseCall \/ ReversePop>>_vars)

ReverseRunning == pc = "reversing" \/ (pc = "returned" /\ frame # << >>)

\* C27: ReverseDependencies returns for every universe and pattern list,
\* cycles and self-dependencies included; no target is scanned twice, no
\* package name is enqueued twice, and the number of pops is at most the
\* number of patterns plus the number of packages of the universe.
C27_ReverseDependenciesTerminates ==
  /\ (pc = "reversing") ~> (pc = "returned")
  /\ [](ReverseRunning =>
          /\ NoDuplicates(frame.scans)
          /\ NoDuplicates(frame.enqueued)
          /\ frame.pops <= Len(ret.args.Patterns) + Len(frame.universe)
          /\ frame.pops = Len(ret.args.Patterns) + Len(frame.enqueued) - Len(frame.queue))

\* A recursive query on a universe where A depends on itself and B and C
\* depend on each other has returned, and one of the targets it popped had
\* been seen before.
C27_Witness ==
  /\ pc = "returned"
  /\ frame # << >>
  /\ ret.args.Recursive
  /\ Value(indexes[1].Packages[nA].Raw, kDepends) = << "A" >>
  /\ Value(indexes[1].Packages[nB].Raw, kDepends) = << "C", " ", "(", ">", "=", " ", "1", ")", " ", "|", " ", "A" >>
  /\ Value(indexes[1].Packages[nC].Raw, kDepends) = << "B", ",", " ", "C" >>
  /\ frame.pops > Len(frame.scans)
  /\ frame.matched = { nA, nB, nC }

InfoParagraphsReturned == pc = "returned" /\ ret.op = "InfoParagraphs" /\ ret.err = NoErr

\* C30: InfoParagraphs is deterministic: on the same index set and status
\* database, whatever a second call with the same patterns can return is what
\* this call returned, paragraph by paragraph in the same order.
C30_InfoParagraphsDeterministic ==
  InfoParagraphsReturned =>
     \A all \in All(indexes) :
        InfoParagraphs(all, indexesLoaded, status, ret.args).val = ret.val
====
